---- MODULE Spec2Model ----
(***************************************************************************)
(* Model of the emuwalker core: the memory bus with its address decode,    *)
(* the flash ROM, the on-chip RAM, the synchronous serial unit (SSU), the  *)
(* H8/300H CPU interpreter and the core facade.                            *)
(*                                                                         *)
(* Conventions.                                                            *)
(*  - All numbers are decimal; the hexadecimal literal of the source is    *)
(*    given in the comment next to each use.                               *)
(*  - The memories and the SSU are threaded through the operators as one   *)
(*    record m = [ram, rom, ssu, crashed].  A bus access is a relation:    *)
(*    it yields the SET of outcomes [m |-> state after, val |-> result].   *)
(*    An access whose behaviour the C standard leaves undefined (a read    *)
(*    through a null pointer, an index past the end of an array, a call    *)
(*    through a pointer read past the end of a table) yields every outcome *)
(*    of the set given at InvalidRead / InvalidWrite / OutOfTable.         *)
(*  - Bit-fields are laid out as gcc lays them out on the little-endian    *)
(*    targets the Makefile builds for: the first declared field is bit 0.  *)
(*  - The ROM image is a 49152-byte buffer; the model names a few images   *)
(*    (RomImage) by the bytes that differ from 0.  The RAM is kept as the  *)
(*    set of its non-zero bytes (offset -> value).                         *)
(***************************************************************************)
EXTENDS Integers, Naturals, Sequences, FiniteSets, TLC

VARIABLES
    s_flashRomBuffer,   \* core.c: handle of the loaded flash image ("NULL" = NULL)
    s_eepromBuffer,     \* core.c: handle of the loaded EEPROM image ("NULL" = NULL)
    s_romData,          \* rom.c: pointer to the ROM image ("NULL" = NULL)
    s_ramData,          \* ram.c: the 2048 RAM bytes (non-zero bytes only)
    ssu,                \* ssu.c: the SSU registers and counters
    cpu,                \* cpu.c: registers, CCR, PC, initialized, opcode buffer
    crashed,            \* TRUE once the process has been killed by a fault
    hostPc,             \* position of the host (main) in its call protocol
    last,               \* the last operation, its arguments and its result
    budget              \* operations left to the host (bounds the model)

vars == <<s_flashRomBuffer, s_eepromBuffer, s_romData, s_ramData, ssu, cpu,
          crashed, hostPc, last, budget>>

-----------------------------------------------------------------------------
(* Bit arithmetic on naturals.                                             *)

RECURSIVE BitAnd(_, _)
BitAnd(a, b) ==
    IF a = 0 \/ b = 0 THEN 0
    ELSE (a % 2) * (b % 2) + 2 * BitAnd(a \div 2, b \div 2)

RECURSIVE BitOr(_, _)
BitOr(a, b) ==
    IF a = 0 THEN b
    ELSE IF b = 0 THEN a
    ELSE (IF (a % 2) + (b % 2) > 0 THEN 1 ELSE 0) + 2 * BitOr(a \div 2, b \div 2)

Pow2(n) == 2 ^ n

Bit(x, k) == (x \div Pow2(k)) % 2

SetBit(x, k, b) == x - Bit(x, k) * Pow2(k) + b * Pow2(k)

U8(x) == x % 256

U16(x) == x % 65536

-----------------------------------------------------------------------------
(* Model bounds and input samples.                                         *)

\* Number of operations the host performs after coreInit.
MaxOps == 2

\* Number of CPU instructions the host steps.
MaxSteps == 8

\* Number of bus cycles the host clocks.
MaxCycles == 4100

\* Number of SSU register accesses of the host between bus cycles, and the
\* number of bus cycles it clocks in between.
MaxAccesses == 2

MaxSsuCycles == 34

\* Bytes written by the host in the model.
ByteSamples == {90, 255}

\* Words and longwords written by the host in the model.
WordSamples == {4660}   \* 0x1234

\* A 32-bit bus value is the pair <<high word, low word>>.
LongSamples == {<<4660, 22136>>}   \* 0x12345678

\* Values an invalid read may deliver.
WildBytes == {0, 255}

\* Handles of the buffers the host owns ("NULL" is the null pointer, "wild" a
\* pointer value that refers to no object of the program).
ImageIds == {"img1", "img2"}

EepromIds == {"eeprom1"}

\* Handles of the program images the host runs on the CPU (named after the
\* instruction under test).
ProgramIds == {"addw", "divxu", "pushpop", "jsr", "jsrer", "eepmov0",
               "eepmov4", "eepmov255", "eepmovram", "addb", "addbh", "incb",
               "undef", "ble", "blet", "ble16", "logic", "adds", "subs"}

AllImageIds == ImageIds \cup ProgramIds

\* The bytes seq placed at base, base+1, ...
Bytes(base, seq) == [a \in base..(base + Len(seq) - 1) |-> seq[a - base + 1]]

\* A program image: reset vector 0x0100 and the code at 0x0100.
Program(code) == (0 :> 1) @@ (1 :> 0) @@ Bytes(256, code)

\* The bytes of each ROM image that differ from 0 (address -> byte).
\* Image 1: reset vector 0x0100; at 0x0100 MOV.B #0x5a,R0H (f0 5a),
\*          at 0x0102 MOV.B R0H,@0xff7f (30 7f), at 0x0104 MOV.B R0H,@0xff80
\*          (30 80); last byte 0x77.
\* Image 2: reset vector 0x1234, NOPs everywhere (scenario "Reset vector").
\* Programs:
\*   divxu     DIVXU.B R0H,R0                                 51 00
\*   addw      ADD.W #0x0001,R0                               79 10 00 01
\*   pushpop   MOV.W #0xff80,R7; MOV.W #0x1234,R1;            79 07 ff 80
\*             MOV.W R1,@-ER7; MOV.W @ER7+,R1                 79 01 12 34
\*                                                            6d f1 6d 71
\*   jsr       MOV.W #0xff80,R7; JSR @0x000200; at 0x0200 RTS 79 07 ff 80
\*                                                            5e 00 02 00
\*   jsrer     MOV.W #0xff80,R7; MOV.W #0x0200,R1; JSR @ER1;  79 07 ff 80
\*             at 0x0200 RTS                                  79 01 02 00
\*                                                            5d 10
\*   eepmovN   MOV.W #N,R4; MOV.W #0x0100,R5;                 79 04 00 NN
\*             MOV.W #0xfa00,R6; EEPMOV.B                     79 05 01 00
\*                                                            79 06 fa 00
\*                                                            7b 5c 59 8f
\*   eepmovram eepmov4 with the RAM at 0xf900 as destination, then the
\*             same with 0xf900 as source and 0xfa00 as destination
\*   addb      MOV.B #0xff,R0H; ADD.B #0x01,R0H               f0 ff 80 01
\*   addbh     MOV.B #0x0f,R0H; ADD.B #0x01,R0H               f0 0f 80 01
\*   incb      MOV.B #0x7f,R0H; INC.B R0H                     f0 7f 0a 00
\*   undef     0x0a10, an opcode no case of the decode holds  0a 10
\*   ble       MOV.B #0x7f,R0H; ADD.B #0x01,R0H (N=1 V=1 Z=0); f0 7f 80 01
\*             BLE +0x10                                      4f 10
\*   blet      MOV.B #0x80,R0H (N=1 V=0 Z=0); BLE +0x10       f0 80 4f 10
\*   logic     MOV.B #0x88,R0H; ADD.B #0x88,R0H (C=H=V=1);    f0 88 80 88
\*             AND.B R0H,R0H; OR.W #0x1234,R1; NOT.L ER1;     16 00 79 41
\*             MOV.W R1,R2; XOR.B #0xff,R0H                   12 34 17 31
\*                                                            0d 12 d0 ff
\*   adds      MOV.W #0x0001,E1; MOV.W #0x1234,R1;            79 09 00 01
\*             ADDS #1,ER1                                    79 01 12 34
\*                                                            0b 01
\*   subs      SUBS #1,ER0                                    1b 00
\*   ble16     MOV.B #0x00,R0H (Z=1); BLE +0x0020 (d:16)      f0 00 58 f0
\*                                                            00 20
EepmovProgram(n) ==
    Program(<<121, 4, 0, n, 121, 5, 1, 0, 121, 6, 250, 0, 123, 92, 89, 143>>)

RomImage(id) ==
    CASE id = "img1" ->
           (0 :> 1) @@ (1 :> 0) @@ (256 :> 240) @@ (257 :> 90) @@ (258 :> 48)
           @@ (259 :> 127) @@ (260 :> 48) @@ (261 :> 128) @@ (49151 :> 119)
      [] id = "img2" -> (0 :> 18) @@ (1 :> 52) @@ (49151 :> 136)
      [] id = "divxu" -> Program(<<81, 0>>)
      [] id = "addw" -> Program(<<121, 16, 0, 1>>)
      [] id = "pushpop" ->
           Program(<<121, 7, 255, 128, 121, 1, 18, 52, 109, 241, 109, 113>>)
      [] id = "jsr" ->
           Program(<<121, 7, 255, 128, 94, 0, 2, 0>>) @@ Bytes(512, <<84, 112>>)
      [] id = "jsrer" ->
           Program(<<121, 7, 255, 128, 121, 1, 2, 0, 93, 16>>)
           @@ Bytes(512, <<84, 112>>)
      [] id = "eepmov0" -> EepmovProgram(0)
      [] id = "eepmov4" -> EepmovProgram(4)
      [] id = "eepmov255" -> EepmovProgram(255)
      [] id = "eepmovram" ->
           Program(<<121, 4, 0, 4, 121, 5, 1, 0, 121, 6, 249, 0, 123, 92, 89, 143,
                     121, 4, 0, 4, 121, 5, 249, 0, 121, 6, 250, 0, 123, 92, 89, 143>>)
      [] id = "addb" -> Program(<<240, 255, 128, 1>>)
      [] id = "addbh" -> Program(<<240, 15, 128, 1>>)
      [] id = "incb" -> Program(<<240, 127, 10, 0>>)
      [] id = "undef" -> Program(<<10, 16>>)
      [] id = "ble" -> Program(<<240, 127, 128, 1, 79, 16>>)
      [] id = "blet" -> Program(<<240, 128, 79, 16>>)
      [] id = "logic" ->
           Program(<<240, 136, 128, 136, 22, 0, 121, 65, 18, 52, 23, 49,
                     13, 18, 208, 255>>)
      [] id = "adds" -> Program(<<121, 9, 0, 1, 121, 1, 18, 52, 11, 1>>)
      [] id = "subs" -> Program(<<27, 0>>)
      [] id = "ble16" -> Program(<<240, 0, 88, 240, 0, 32>>)

ImgByte(id, a) ==
    IF a \in DOMAIN RomImage(id) THEN RomImage(id)[a] ELSE 0

\* Addresses the host reads and writes, by decode range.
RomAddrs == {0, 49151}                            \* 0x0000 0xbfff
OpenAddrs == {49152, 61696}                       \* 0xc000 0xf100
FlashRegAddrs == {61472}                          \* 0xf020
Io1OpenAddrs == {61476}                           \* 0xf024
SsuAddrs == {61668, 61675}                        \* 0xf0e4 (SSSR) 0xf0eb (SSTDR)
RamAddrs == {63360, 65407}                        \* 0xf780 0xff7f
Io2Addrs == {65408, 65535}                        \* 0xff80 0xffff

\* SSU registers the host writes and reads between bus cycles, and the bytes
\* it writes: 0x07 (CKS = 7; as SSSR mask it clears TEND) and 0x5a (CKS = 2;
\* as SSSR mask it clears TDRE).
SsuWriteAddrs == {61666, 61668, 61675}            \* SSMR SSSR SSTDR
SsuReadAddrs == {61668, 61673}                    \* SSSR SSRDR
SsuByteSamples == {7, 90}

AddrSamples == RomAddrs \cup OpenAddrs \cup FlashRegAddrs \cup Io1OpenAddrs
               \cup SsuAddrs \cup RamAddrs \cup Io2Addrs

\* Addresses of the 16-bit accesses: one per decode range, and an odd one.
Addr16Samples == {0, 49152, 61696, 61476, 63361, 65408}

\* Addresses of the 32-bit accesses: inside the ROM, inside the open bus, and
\* the last word of the RAM (its second half lies in the 0xff80 page).
Addr32Samples == {0, 49152, 65406}

-----------------------------------------------------------------------------
(* Outcomes of an access.                                                  *)

Ok(m, v) == [m |-> m, val |-> v]

\* The process is killed (SIGSEGV): nothing runs after it.
Crash(m) == [m |-> [m EXCEPT !.crashed = TRUE], val |-> 0]

\* A load outside every object (null pointer, index past the end of an
\* array): the process is killed, or the load delivers whatever lies there.
InvalidRead(m) == {Crash(m)} \cup {Ok(m, v) : v \in WildBytes}

\* A store made by a handler that was entered through a pointer read past
\* the end of the decode table (the handler, its address argument, or both are
\* not the ones of the decode): the process is killed, or the store lands on
\* an object outside the memory record, or the ROM pointer is overwritten
\* (the slots behind the table hold the program's own .bss, s_romData and the
\* guest-writable s_ramData among them, so the called code is guest-chosen).
InvalidWrite(m) == {Crash(m), Ok(m, 0), Ok([m EXCEPT !.rom = "wild"], 0)}

\* S, then F on each of its outcomes that did not kill the process.
Then(S, F(_)) == UNION {IF r.m.crashed THEN {r} ELSE F(r) : r \in S}

-----------------------------------------------------------------------------
(* ROM (rom.c).                                                            *)

\* s_romData[p_address]
romDeref(m, a) ==
    IF m.rom \in AllImageIds THEN {Ok(m, ImgByte(m.rom, a))}
    ELSE InvalidRead(m)

romInit(m, p_romBuffer) == [m EXCEPT !.rom = p_romBuffer]

\* The five flash control registers read 0xff.
read8FlashRegister == 255

romRead8(m, p_address) ==
    IF BitAnd(p_address, 49152) # 49152             \* (addr & 0xc000) != 0xc000
    THEN romDeref(m, p_address)
    ELSE IF p_address \in {61472, 61473, 61474, 61475, 61483}  \* f020-f023, f02b
    THEN {Ok(m, read8FlashRegister)}
    ELSE {Ok(m, 255)}

romRead16(m, p_address) ==
    LET l_address == BitAnd(p_address, 65534) IN    \* & 0xfffe
    IF BitAnd(l_address, 49152) # 49152
    THEN Then(romDeref(m, l_address),
              LAMBDA hi : Then(romDeref(hi.m, BitOr(l_address, 1)),
                               LAMBDA lo : {Ok(lo.m, hi.val * 256 + lo.val)}))
    ELSE {Ok(m, 65535)}                             \* 0xffff

\* Writes to the image are not implemented; the register writes are stubs.
romWrite8(m, p_address, p_value) == {Ok(m, 0)}

romWrite16(m, p_address, p_value) == {Ok(m, 0)}

-----------------------------------------------------------------------------
(* RAM (ram.c).                                                            *)

C_RAM_SIZE == 2048

ramByte(ram, off) == IF off \in DOMAIN ram THEN ram[off] ELSE 0

ramStore(ram, off, v) ==
    IF v = 0
    THEN [o \in DOMAIN ram \ {off} |-> ram[o]]
    ELSE [o \in DOMAIN ram \cup {off} |-> IF o = off THEN v ELSE ram[o]]

\* s_ramData[off] as an rvalue
ramLoad(m, off) ==
    IF off >= 0 /\ off < C_RAM_SIZE THEN {Ok(m, ramByte(m.ram, off))}
    ELSE InvalidRead(m)

\* s_ramData[off] = v
ramAssign(m, off, v) ==
    IF off >= 0 /\ off < C_RAM_SIZE
    THEN {Ok([m EXCEPT !.ram = ramStore(m.ram, off, v)], 0)}
    ELSE InvalidWrite(m)

EmptyRam == [o \in {} |-> 0]

ramReset(m) == [m EXCEPT !.ram = EmptyRam]

ramRead8(m, p_address) == ramLoad(m, p_address - 63360)       \* - 0xf780

ramRead16(m, p_address) ==
    Then(ramLoad(m, p_address - 63360),                       \* - 0xf780
         LAMBDA hi : Then(ramLoad(hi.m, p_address - 63359),   \* - 0xf77f
                          LAMBDA lo : {Ok(lo.m, hi.val * 256 + lo.val)}))

\* ramWrite8 indexing with p_address - 0xf77f: the store lands one byte late.
ramWrite8_OffByOne(m, p_address, p_value) ==
    ramAssign(m, p_address - 63359, p_value)

ramWrite8(m, p_address, p_value) == ramAssign(m, p_address - 63360, p_value)

ramWrite16(m, p_address, p_value) ==
    Then(ramAssign(m, p_address - 63360, p_value \div 256),
         LAMBDA hi : ramAssign(hi.m, p_address - 63359, U8(p_value)))

-----------------------------------------------------------------------------
(* SSU (ssu.c).  s is the record of the SSU registers and counters.        *)

\* Bit positions of union tu_ssuSssr (first declared field is bit 0).
SSSR_CE == 0
SSSR_RDRF == 1
SSSR_TDRE == 2
SSSR_TEND == 3
SSSR_ORER == 6

Ce(s) == Bit(s.sssr, SSSR_CE)
Rdrf(s) == Bit(s.sssr, SSSR_RDRF)
Tdre(s) == Bit(s.sssr, SSSR_TDRE)
Tend(s) == Bit(s.sssr, SSSR_TEND)
Orer(s) == Bit(s.sssr, SSSR_ORER)

\* s_ssuSsmr.bitField.cks: bits 0..2 of SSMR
Cks(s) == s.ssmr % 8

\* The SSU statics before any code has run (zero-initialised storage).
SsuZero ==
    [sscrh |-> 0, sscrl |-> 0, ssmr |-> 0, sser |-> 0, sssr |-> 0, ssrdr |-> 0,
     sstdr |-> 0, sstrsr |-> 0, clockCounter |-> 0, bitCounter |-> 0]

ssuReset(s) ==
    [s EXCEPT !.sscrh = 8, !.sscrl = 0, !.ssmr = 0, !.sser = 0, !.sssr = 4,
              !.ssrdr = 0, !.sstdr = 0, !.clockCounter = 0, !.bitCounter = 0]

\* Returns <<SSU after, value read>>.
ssuReadSsrdr(s) ==
    <<[s EXCEPT !.sssr = SetBit(s.sssr, SSSR_RDRF, 0)], s.ssrdr>>

ssuWriteSstdr_KeepsTdre(s, p_value) ==
    LET s1 == [s EXCEPT !.sstdr = p_value] IN
    IF Tend(s1) = 1
    THEN [s1 EXCEPT !.sstrsr = s1.sstdr, !.sssr = SetBit(s1.sssr, SSSR_TEND, 0)]
    ELSE s1

ssuWriteSstdr(s, p_value) ==
    LET s1 == [s EXCEPT !.sstdr = p_value] IN
    IF Tend(s1) = 1
    THEN [s1 EXCEPT !.sstrsr = s1.sstdr, !.sssr = SetBit(s1.sssr, SSSR_TEND, 0)]
    ELSE [s1 EXCEPT !.sssr = SetBit(s1.sssr, SSSR_TDRE, 0)]

\* Returns <<SSU after, value read>>.
ssuRead8(s, p_address) ==
    CASE p_address = 61664 -> <<s, s.sscrh>>                  \* 0xf0e0 SSCRH
      [] p_address = 61665 -> <<s, BitAnd(s.sscrl, 120)>>     \* 0xf0e1 & 0x78
      [] p_address = 61666 -> <<s, BitAnd(s.ssmr, 231)>>      \* 0xf0e2 & 0xe7
      [] p_address = 61667 -> <<s, BitAnd(s.sser, 239)>>      \* 0xf0e3 & 0xef
      [] p_address = 61668 -> <<s, BitAnd(s.sssr, 79)>>       \* 0xf0e4 & 0x4f
      [] p_address = 61673 -> ssuReadSsrdr(s)                 \* 0xf0e9 SSRDR
      [] p_address = 61675 -> <<s, s.sstdr>>                  \* 0xf0eb SSTDR
      [] OTHER -> <<s, 255>>

ssuRead16(s, p_address) ==
    LET r == ssuRead8(s, p_address) IN <<r[1], BitOr(65280, r[2])>>  \* 0xff00 |

ssuWrite8_SssrStore(s, p_address, p_value) ==
    CASE p_address = 61664 -> [s EXCEPT !.sscrh = p_value]
      [] p_address = 61665 -> [s EXCEPT !.sscrl = p_value]
      [] p_address = 61666 -> [s EXCEPT !.ssmr = p_value]
      [] p_address = 61667 -> [s EXCEPT !.sser = p_value]
      [] p_address = 61668 -> [s EXCEPT !.sssr = p_value]
      [] p_address = 61673 -> s
      [] p_address = 61675 -> ssuWriteSstdr(s, p_value)
      [] OTHER -> s

ssuWrite8(s, p_address, p_value) ==
    CASE p_address = 61664 -> [s EXCEPT !.sscrh = p_value]
      [] p_address = 61665 -> [s EXCEPT !.sscrl = p_value]
      [] p_address = 61666 -> [s EXCEPT !.ssmr = p_value]
      [] p_address = 61667 -> [s EXCEPT !.sser = p_value]
      [] p_address = 61668 -> [s EXCEPT !.sssr = BitAnd(s.sssr, p_value)]
      [] p_address = 61673 -> s
      [] p_address = 61675 -> ssuWriteSstdr(s, p_value)
      [] OTHER -> s

\* The uint16_t argument is converted to the uint8_t parameter of ssuWrite8.
ssuWrite16(s, p_address, p_value) == ssuWrite8(s, p_address, U8(p_value))

ssuEndOfByte_KeepsTend(s) ==
    LET s1 == IF Tdre(s) = 0
              THEN [s EXCEPT !.sstrsr = s.sstdr,
                             !.sssr = SetBit(s.sssr, SSSR_TDRE, 1)]
              ELSE s
        s2 == IF Rdrf(s1) = 1
              THEN [s1 EXCEPT !.sssr = SetBit(s1.sssr, SSSR_ORER, 1)]
              ELSE [s1 EXCEPT !.ssrdr = 255]
    IN [s2 EXCEPT !.bitCounter = 0]

\* End of one byte inside ssuCycle (s_ssuBitCounter == 8).
ssuEndOfByte(s) ==
    LET s1 == IF Tdre(s) = 0
              THEN [s EXCEPT !.sstrsr = s.sstdr,
                             !.sssr = SetBit(s.sssr, SSSR_TDRE, 1)]
              ELSE [s EXCEPT !.sssr = SetBit(s.sssr, SSSR_TEND, 1)]
        s2 == IF Rdrf(s1) = 1
              THEN [s1 EXCEPT !.sssr = SetBit(s1.sssr, SSSR_ORER, 1)]
              ELSE [s1 EXCEPT !.ssrdr = 255]
    IN [s2 EXCEPT !.bitCounter = 0]

ssuCycle_NoWrap(s) ==
    IF Tend(s) = 0
    THEN LET c == s.clockCounter + Pow2(Cks(s)) IN
         IF c >= 256
         THEN LET s1 == [s EXCEPT !.clockCounter = c,
                                  !.bitCounter = s.bitCounter + 1]
              IN IF s1.bitCounter = 8 THEN ssuEndOfByte(s1) ELSE s1
         ELSE [s EXCEPT !.clockCounter = c]
    ELSE s

ssuCycle(s) ==
    IF Tend(s) = 0
    THEN LET c == s.clockCounter + Pow2(Cks(s)) IN
         IF c >= 256
         THEN LET s1 == [s EXCEPT !.clockCounter = c - 256,
                                  !.bitCounter = s.bitCounter + 1]
              IN IF s1.bitCounter = 8 THEN ssuEndOfByte(s1) ELSE s1
         ELSE [s EXCEPT !.clockCounter = c]
    ELSE s

-----------------------------------------------------------------------------
(* Bus (bus.c).                                                            *)

\* s_io1BusPeripherals: the table of 0xf020-0xf0ff (index = address - 0xf020).
s_io1BusPeripherals(i) ==
    IF i \in {0, 1, 2, 3, 11} THEN "ROM"
    ELSE IF i \in {192, 193, 194, 195, 196, 201, 203} THEN "SSU"
    ELSE "NONE"

\* Number of entries of s_io2BusPeripherals; every entry is the open bus.
Io2TableEntries == 128

\* The value of s_io2BusPeripherals[i] past the end of the table: whatever
\* the memory behind the table holds, taken as a pointer.  It may be the
\* address of any of the four peripherals or of no peripheral at all.
OutOfTable == {"NONE", "ROM", "RAM", "SSU", "WILD"}

s_io2BusPeripherals(i) ==
    IF i < Io2TableEntries THEN {"NONE"} ELSE OutOfTable

\* Index used by the decode of the 0xff80-0xffff page.
Io2Index(p_address) == BitAnd(p_address, 255)                  \* & 0x00ff

\* busGetPeripheral with the open ranges decoded to the RAM.
busGetPeripheral_OpenAsRam(p_address) ==
    IF BitAnd(p_address, 49152) # 49152 THEN {"ROM"}
    ELSE IF p_address <= 61471 THEN {"RAM"}
    ELSE IF p_address <= 61695
    THEN {s_io1BusPeripherals(p_address - 61472)}
    ELSE IF p_address <= 63359 THEN {"RAM"}
    ELSE IF p_address <= 65407 THEN {"RAM"}
    ELSE s_io2BusPeripherals(Io2Index(p_address))

\* The set of peripherals the decode may deliver for an address.
busGetPeripheral(p_address) ==
    IF BitAnd(p_address, 49152) # 49152 THEN {"ROM"}           \* 0x0000-0xbfff
    ELSE IF p_address <= 61471 THEN {"NONE"}                   \* <= 0xf01f
    ELSE IF p_address <= 61695                                 \* <= 0xf0ff
    THEN {s_io1BusPeripherals(p_address - 61472)}              \* - 0xf020
    ELSE IF p_address <= 63359 THEN {"NONE"}                   \* <= 0xf77f
    ELSE IF p_address <= 65407 THEN {"RAM"}                    \* <= 0xff7f
    ELSE s_io2BusPeripherals(Io2Index(p_address))

busOpenRead8 == 255                                            \* 0xffU

busOpenRead16 == 255                                           \* 0xffU

SsuOutcome(m, r) == {Ok([m EXCEPT !.ssu = r[1]], r[2])}

\* peripheral->read8(p_address); a call through a pointer to no peripheral
\* kills the process.
periphRead8(p, m, a) ==
    CASE p = "NONE" -> {Ok(m, busOpenRead8)}
      [] p = "ROM" -> romRead8(m, a)
      [] p = "RAM" -> ramRead8(m, a)
      [] p = "SSU" -> SsuOutcome(m, ssuRead8(m.ssu, a))
      [] OTHER -> {Crash(m)}

periphRead16(p, m, a) ==
    CASE p = "NONE" -> {Ok(m, busOpenRead16)}
      [] p = "ROM" -> romRead16(m, a)
      [] p = "RAM" -> ramRead16(m, a)
      [] p = "SSU" -> SsuOutcome(m, ssuRead16(m.ssu, a))
      [] OTHER -> {Crash(m)}

periphWrite8(p, m, a, v) ==
    CASE p = "NONE" -> {Ok(m, 0)}
      [] p = "ROM" -> romWrite8(m, a, v)
      [] p = "RAM" -> ramWrite8(m, a, v)
      [] p = "SSU" -> {Ok([m EXCEPT !.ssu = ssuWrite8(m.ssu, a, v)], 0)}
      [] OTHER -> {Crash(m)}

periphWrite16(p, m, a, v) ==
    CASE p = "NONE" -> {Ok(m, 0)}
      [] p = "ROM" -> romWrite16(m, a, v)
      [] p = "RAM" -> ramWrite16(m, a, v)
      [] p = "SSU" -> {Ok([m EXCEPT !.ssu = ssuWrite16(m.ssu, a, v)], 0)}
      [] OTHER -> {Crash(m)}

busRead8(m, p_address) ==
    UNION {periphRead8(p, m, p_address) : p \in busGetPeripheral(p_address)}

\* Every peripheral has a read16, so the read8 fallback is never taken.
busRead16(m, p_address) ==
    LET a == BitAnd(p_address, 65534) IN                       \* & 0xfffeU
    UNION {periphRead16(p, m, a) : p \in busGetPeripheral(a)}

busRead32(m, p_address) ==
    Then(busRead16(m, p_address),
         LAMBDA hi : Then(busRead16(hi.m, U16(p_address + 2)),
                          LAMBDA lo : {Ok(lo.m, <<hi.val, lo.val>>)}))

busWrite8(m, p_address, p_value) ==
    UNION {periphWrite8(p, m, p_address, p_value) :
           p \in busGetPeripheral(p_address)}

busWrite16(m, p_address, p_value) ==
    LET a == BitAnd(p_address, 65534) IN
    UNION {periphWrite16(p, m, a, p_value) : p \in busGetPeripheral(a)}

busWrite32(m, p_address, p_value) ==
    Then(busWrite16(m, p_address, p_value[1]),
         LAMBDA hi : busWrite16(hi.m, U16(p_address + 2), p_value[2]))

busCycle(m) == [m EXCEPT !.ssu = ssuCycle(m.ssu)]

-----------------------------------------------------------------------------
(* CPU (cpu.c).  c is the record of the CPU statics.                       *)

\* Bit positions of union tu_cpuFlagsRegister (first declared field is bit 0).
CCR_C == 0
CCR_V == 1
CCR_Z == 2
CCR_N == 3
CCR_H == 5
CCR_I == 7

\* The CPU statics before any code has run (zero-initialised storage).
CpuZero ==
    [er |-> [i \in 0..7 |-> 0], ccr |-> 0, pc |-> 0, initialized |-> FALSE,
     opcodeBuffer |-> <<0, 0>>]

\* cpuReset leaving the interrupt mask clear.
cpuReset_NoMask(c) ==
    [c EXCEPT !.er = [i \in 0..7 |-> 0],
              !.ccr = 0,
              !.pc = 0,
              !.initialized = FALSE]

cpuReset(c) ==
    [c EXCEPT !.er = [i \in 0..7 |-> 0],
              !.ccr = SetBit(0, CCR_I, 1),
              !.pc = 0,
              !.initialized = FALSE]

cpuGetRegister8(c, p_register) ==
    IF BitAnd(p_register, 8) = 0
    THEN (c.er[BitAnd(p_register, 7)] \div 256) % 256          \* byte.rh
    ELSE c.er[BitAnd(p_register, 7)] % 256                     \* byte.rl

cpuSetRegister8(c, p_register, p_value) ==
    LET i == BitAnd(p_register, 7)
        old == c.er[i]
    IN IF BitAnd(p_register, 8) = 0
       THEN [c EXCEPT !.er[i] = old - ((old \div 256) % 256) * 256 + p_value * 256]
       ELSE [c EXCEPT !.er[i] = old - (old % 256) + p_value]

\* The cast of the return statement cuts the 16-bit register to its low byte.
cpuGetRegister16(c, p_register) ==
    IF BitAnd(p_register, 8) = 0
    THEN U8(c.er[BitAnd(p_register, 7)] % 65536)               \* (uint8_t)word.r
    ELSE U8(c.er[BitAnd(p_register, 7)] \div 65536)            \* (uint8_t)word.e

cpuSetRegister16(c, p_register, p_value) ==
    LET i == BitAnd(p_register, 7)
        old == c.er[i]
    IN IF BitAnd(p_register, 8) = 0
       THEN [c EXCEPT !.er[i] = old - (old % 65536) + p_value]
       ELSE [c EXCEPT !.er[i] = (old % 65536) + p_value * 65536]

\* The registers of the model's programs stay below 2^31.
cpuGetRegister32(c, p_register) == c.er[p_register]

cpuSetRegister32(c, p_register, p_value) == [c EXCEPT !.er[p_register] = p_value]

\* Values an uninitialized 16-bit local may hold.
WildWords == {0, 65535}

\* A bool stored into a one-bit field.
Flag(b) == IF b THEN 1 ELSE 0

\* An outcome of a handler.
Cpu(m, c) == [m |-> m, cpu |-> c]

\* A bus access S made by a handler running on c, then F on each outcome
\* that did not kill the process.
AfterBus(S, c, F(_)) ==
    UNION {IF r.m.crashed THEN {Cpu(r.m, c)} ELSE F(r) : r \in S}

\* A fetch S, then F on each outcome that did not kill the process.
AfterFetch(S, F(_)) ==
    UNION {IF f.m.crashed THEN {Cpu(f.m, f.cpu)} ELSE F(f) : f \in S}

\* N and Z from an 8-bit value, V cleared (the tail of the MOV.B handlers).
cpuFlagsMovB(c, l_operand) ==
    [c EXCEPT !.ccr = SetBit(SetBit(SetBit(c.ccr,
                          CCR_N, IF BitAnd(l_operand, 128) # 0 THEN 1 ELSE 0),
                          CCR_Z, IF l_operand = 0 THEN 1 ELSE 0),
                          CCR_V, 0)]

\* busRead16(s_cpuRegisterPC), then PC += 2.  Outcomes [m, cpu, val].
\* PC starts from a 16-bit vector and grows by 2 per fetch, so it stays far
\* below 2^32 within MaxSteps steps.
cpuFetch16(m, c) ==
    {[m |-> r.m,
      cpu |-> IF r.m.crashed THEN c ELSE [c EXCEPT !.pc = c.pc + 2],
      val |-> r.val] : r \in busRead16(m, U16(c.pc))}

\* The case labels of cpuDecodeGroup2 (values of opcode >> 4).
Group2Cases ==
    {16, 20, 24, 28, 29, 31, 160} \cup (168..176) \cup {181, 183, 184, 185,
     189, 191, 240} \cup (248..257) \cup {259, 264, 265, 267, 272, 273, 275,
     280, 281, 283, 288, 289, 291, 296, 297, 299, 304, 305, 307, 312, 313,
     315, 368, 369, 371, 373, 375, 376, 377, 379, 381, 383, 416}
    \cup (424..432) \cup {437, 439, 440, 441, 445, 447, 496} \cup (504..511)
    \cup (1408..1423) \cup (1936..1942) \cup (1952..1958)

\* The handlers the model does not hold are "Unmodelled": the model performs
\* no step on such an opcode.
cpuDecodeGroup2(op) ==
    LET g == op \div 16 IN
    IF g = 160 THEN "IncB"                                     \* 0x0a0
    ELSE IF g = 1936 THEN "MovW2"                              \* 0x790
    ELSE IF g = 1937 THEN "AddW"                               \* 0x791
    ELSE IF g >= 1408 /\ g <= 1423 THEN "Bcc"                  \* 0x580-0x58f
    ELSE IF g \in {176, 184, 185} THEN "AddS"                  \* 0x0b0 0x0b8 0x0b9
    ELSE IF g >= 248 /\ g <= 255 THEN "MovL1"                  \* 0x0f8-0x0ff
    ELSE IF (g >= 424 /\ g <= 432) \/ g \in {437, 440, 441, 445}
    THEN "DecW"                              \* 0x1a8-0x1b0 0x1b5 0x1b8 0x1b9 0x1bd
    ELSE IF g = 368 THEN "NotB"                                \* 0x170
    ELSE IF g = 369 THEN "NotW"                                \* 0x171
    ELSE IF g = 371 THEN "NotL"                                \* 0x173
    ELSE IF g \in {1939, 1940} THEN "OrW"                      \* 0x793 0x794
    ELSE IF g \in {1941, 1942} THEN "AndW"                     \* 0x795 0x796
    ELSE IF g \in {1955, 1956} THEN "OrL"                      \* 0x7a3 0x7a4
    ELSE IF g \in {1957, 1958} THEN "AndL"                     \* 0x7a5 0x7a6
    ELSE IF g \in Group2Cases THEN "Unmodelled"
    ELSE "Undefined"

\* The handler cpuDecode returns for the first opcode word.
cpuDecode(op) ==
    LET hi == op \div 256 IN
    IF hi = 0 THEN "Nop"
    ELSE IF hi \in {1, 10, 11, 15, 16, 17, 18, 19, 23, 24, 25, 26, 27, 30, 31,
                    87, 88, 121, 122}
    THEN cpuDecodeGroup2(op)
    ELSE IF hi = 8 THEN "AddB"
    ELSE IF hi = 9 THEN "AddW"
    ELSE IF hi = 12 THEN "MovB1"                               \* 0x0c
    ELSE IF hi = 13 THEN "MovW1"                               \* 0x0d
    ELSE IF hi = 20 THEN "OrB"                                 \* 0x14
    ELSE IF hi \in {21, 22} THEN "AndB"                        \* 0x15 0x16
    ELSE IF hi >= 48 /\ hi <= 63 THEN "MovB3"                  \* 0x30-0x3f
    ELSE IF hi = 100 THEN "OrW"                                \* 0x64
    ELSE IF hi \in {101, 102} THEN "AndW"                      \* 0x65 0x66
    ELSE IF hi >= 176 /\ hi <= 207 THEN "OrB"                  \* 0xb0-0xcf
    ELSE IF hi >= 208 /\ hi <= 239 THEN "AndB"                 \* 0xd0-0xef
    ELSE IF hi >= 64 /\ hi <= 79 THEN "Bcc"                    \* 0x40-0x4f
    ELSE IF hi = 81 THEN "DivxuB"                              \* 0x51
    ELSE IF hi = 84 THEN "Rts"                                 \* 0x54
    ELSE IF hi \in {93, 94, 95} THEN "Jsr"                     \* 0x5d-0x5f
    ELSE IF hi \in {105, 107, 109, 111}                        \* 0x69 6b 6d 6f
    THEN (IF BitAnd(op, 128) = 0 THEN "MovW2" ELSE "MovW3")
    ELSE IF hi = 123                                           \* 0x7b
    THEN (IF op = 31580 THEN "EepmovB" ELSE "Unmodelled")      \* 0x7b5c
    ELSE IF hi >= 128 /\ hi <= 143 THEN "AddB"                 \* 0x80-0x8f
    ELSE IF hi >= 240 THEN "MovB2"                             \* 0xf0-0xff
    ELSE "Unmodelled"

cpuOpcodeNop(m, c) == {[m |-> m, cpu |-> c]}

\* MOV.B #xx:8, Rd (the first branch of the handler).
cpuOpcodeMovB2(m, c) ==
    LET op == c.opcodeBuffer[1] IN
    IF BitAnd(op, 61440) = 61440                               \* & 0xf000
    THEN LET l_rd == BitAnd(op, 3840) \div 16                  \* (& 0x0f00) >> 4
             l_operand == U8(op)
         IN {[m |-> m,
              cpu |-> cpuFlagsMovB(cpuSetRegister8(c, l_rd, l_operand), l_operand)]}
    ELSE {}

\* MOV.B Rs, @aa:8 (the 0x3000 branch of the handler).
cpuOpcodeMovB3(m, c) ==
    LET op == c.opcodeBuffer[1] IN
    IF BitAnd(op, 61440) = 12288                               \* == 0x3000
    THEN LET l_rs == BitAnd(op, 3840) \div 65536               \* (& 0x0f00) >> 16
             \* 0xffffff00 | (op & 0xff), cut to the uint16_t of busWrite8
             l_address == BitOr(65280, BitAnd(op, 255))
             l_operand == cpuGetRegister8(c, l_rs)
             c1 == cpuFlagsMovB(c, l_operand)
         IN {[m |-> r.m, cpu |-> c1] :
             r \in busWrite8(m, l_address, l_operand)}
    ELSE {}

\* The TODO handler: it does nothing.
cpuOpcodeUndefined(m, c) == {Cpu(m, c)}

\* (int16_t)(int8_t)x for a byte x, and (int16_t)x for a word x.
Int8(x) == IF x < 128 THEN x ELSE x - 256

Int16(x) == IF x < 32768 THEN x ELSE x - 65536

\* The operand is the sign-extended low word of ERd, not ERd.  The decode
\* enters the handler with one of the three size fields only.  The model
\* holds the handler for the sums that are not below 0.
cpuOpcodeAddS(m, c) ==
    LET op == c.opcodeBuffer[1]
        l_erd == BitAnd(op, 7)
        l_erdValue == Int16(c.er[l_erd] % 65536)
        f == BitAnd(op, 240)
    IN IF f \notin {0, 128, 144} THEN {}
       ELSE LET l_operand2 == IF f = 0 THEN 1 ELSE IF f = 128 THEN 2 ELSE 4
            IN IF l_erdValue + l_operand2 < 0 THEN {}
               ELSE {Cpu(m, [c EXCEPT !.er[l_erd] = l_erdValue + l_operand2])}

\* The handler computes the flags and does not store the result.
cpuOpcodeDecW(m, c) ==
    LET op == c.opcodeBuffer[1]
        l_rd == BitAnd(op, 15)
        l_operand == cpuGetRegister16(c, l_rd)
        l_operand2 == IF BitAnd(op, 65520) = 6992 THEN 1 ELSE 2  \* == 0x1b50
        l_result == U16(l_operand + 65536 - l_operand2)
        ccr == SetBit(SetBit(SetBit(c.ccr,
                 CCR_N, Bit(l_result, 15)),
                 CCR_Z, Flag(l_result = 0)),
                 CCR_V, Flag(Bit(l_operand, 15) # Bit(l_result, 15)))
    IN {Cpu(m, [c EXCEPT !.ccr = ccr])}

\* Two fetches; the value is the pair <<high word, low word>>.
cpuFetch32(m, c) ==
    UNION {IF hi.m.crashed THEN {[m |-> hi.m, cpu |-> hi.cpu, val |-> <<0, 0>>]}
           ELSE {[m |-> lo.m, cpu |-> lo.cpu, val |-> <<hi.val, lo.val>>] :
                 lo \in cpuFetch16(hi.m, hi.cpu)}
           : hi \in cpuFetch16(m, c)}

\* N and Z as given, V cleared: the flag updates of the logical handlers.
cpuFlagsLogical(c, negative, zero) ==
    [c EXCEPT !.ccr = SetBit(SetBit(SetBit(c.ccr, CCR_N, Flag(negative)),
                                    CCR_Z, Flag(zero)), CCR_V, 0)]

\* cpuOpcodeAndB without "overflow = false".
cpuOpcodeAndB_KeepsV(m, c) ==
    LET op == c.opcodeBuffer[1]
        reg == BitAnd(op, 65280) = 5632
        l_rd == IF reg THEN BitAnd(op, 15) ELSE BitAnd(op, 3840) \div 256
        l_operand1 == IF reg THEN cpuGetRegister8(c, BitAnd(op, 240) \div 16)
                      ELSE BitAnd(op, 255)
        l_result == BitAnd(l_operand1, cpuGetRegister8(c, l_rd))
        ccr == SetBit(SetBit(c.ccr, CCR_N, Bit(l_result, 7)),
                      CCR_Z, Flag(l_result = 0))
    IN {Cpu(m, cpuSetRegister8([c EXCEPT !.ccr = ccr], l_rd, l_result))}

cpuOpcodeAndB(m, c) ==
    LET op == c.opcodeBuffer[1]
        reg == BitAnd(op, 65280) = 5632                        \* == 0x1600
        l_rd == IF reg THEN BitAnd(op, 15) ELSE BitAnd(op, 3840) \div 256
        l_operand1 == IF reg THEN cpuGetRegister8(c, BitAnd(op, 240) \div 16)
                      ELSE BitAnd(op, 255)
        l_result == BitAnd(l_operand1, cpuGetRegister8(c, l_rd))
    IN {Cpu(m, cpuSetRegister8(
                 cpuFlagsLogical(c, Bit(l_result, 7) = 1, l_result = 0),
                 l_rd, l_result))}

\* As in ADD.W, the #xx:16 branch leaves l_operand1 unassigned.
cpuOpcodeAndW(m, c) ==
    LET op == c.opcodeBuffer[1]
        l_rd == BitAnd(op, 15)
        done(d, l_operand1) ==
            LET l_result == BitAnd(l_operand1, cpuGetRegister16(d, l_rd))
            IN cpuSetRegister16(
                 cpuFlagsLogical(d, Bit(l_result, 15) = 1, l_result = 0),
                 l_rd, l_result)
    IN IF BitAnd(op, 65280) = 26112                            \* == 0x6600
       THEN {Cpu(m, done(c, cpuGetRegister16(c, BitAnd(op, 240) \div 16)))}
       ELSE AfterFetch(cpuFetch16(m, c),
              LAMBDA f : {Cpu(f.m, done(f.cpu, w)) : w \in WildWords})

\* In the branch taken for 0x7a60-0x7a67 one word is fetched and read as a
\* pair of register fields; the other branch fetches a 32-bit immediate.
\* The registers of the model stay below 2^31, so bit 31 of the result is 0.
cpuOpcodeAndL(m, c) ==
    LET op == c.opcodeBuffer[1] IN
    IF BitAnd(op, 65528) = 31328                               \* & 0xfff8 == 0x7a60
    THEN AfterFetch(cpuFetch16(m, c),
           LAMBDA f :
             LET l_erd == BitAnd(f.val, 7)
                 l_operand1 == cpuGetRegister32(f.cpu, BitAnd(f.val, 112) \div 16)
                 l_result == BitAnd(l_operand1, cpuGetRegister32(f.cpu, l_erd))
                 d == [f.cpu EXCEPT !.opcodeBuffer[2] = f.val]
             IN {Cpu(f.m, cpuSetRegister32(
                            cpuFlagsLogical(d, FALSE, l_result = 0),
                            l_erd, l_result))})
    ELSE AfterFetch(cpuFetch32(m, c),
           LAMBDA f :
             LET l_erd == BitAnd(op, 7)
                 l_operand2 == cpuGetRegister32(f.cpu, l_erd)
                 l_result == BitAnd(f.val[1], l_operand2 \div 65536) * 65536
                             + BitAnd(f.val[2], l_operand2 % 65536)
             IN {Cpu(f.m, cpuSetRegister32(
                            cpuFlagsLogical(f.cpu, FALSE, l_result = 0),
                            l_erd, l_result))})

cpuOpcodeMovB1(m, c) ==
    LET op == c.opcodeBuffer[1]
        l_value == cpuGetRegister8(c, BitAnd(op, 240) \div 16)
    IN {Cpu(m, cpuFlagsLogical(cpuSetRegister8(c, BitAnd(op, 15), l_value),
                               Bit(l_value, 7) = 1, l_value = 0))}

cpuOpcodeMovW1(m, c) ==
    LET op == c.opcodeBuffer[1]
        l_value == cpuGetRegister16(c, BitAnd(op, 240) \div 16)
    IN {Cpu(m, cpuFlagsLogical(cpuSetRegister16(c, BitAnd(op, 15), l_value),
                               Bit(l_value, 15) = 1, l_value = 0))}

\* The registers of the model stay below 2^31, so bit 31 of the value is 0.
cpuOpcodeMovL1(m, c) ==
    LET op == c.opcodeBuffer[1]
        l_value == cpuGetRegister32(c, BitAnd(op, 112) \div 16)
    IN {Cpu(m, cpuFlagsLogical(cpuSetRegister32(c, BitAnd(op, 7), l_value),
                               FALSE, l_value = 0))}

\* The handler writes the operand back, not its complement.
cpuOpcodeNotB(m, c) ==
    LET l_rd == BitAnd(c.opcodeBuffer[1], 15)
        l_rdValue == cpuGetRegister8(c, l_rd)
        l_result == 255 - l_rdValue
    IN {Cpu(m, cpuFlagsLogical(cpuSetRegister8(c, l_rd, l_rdValue),
                               Bit(l_result, 7) = 1, l_result = 0))}

\* The handler writes the low byte of the operand back with cpuSetRegister8.
cpuOpcodeNotW(m, c) ==
    LET l_rd == BitAnd(c.opcodeBuffer[1], 15)
        l_rdValue == cpuGetRegister16(c, l_rd)
        l_result == 65535 - l_rdValue
    IN {Cpu(m, cpuFlagsLogical(cpuSetRegister8(c, l_rd, U8(l_rdValue)),
                               Bit(l_result, 15) = 1, l_result = 0))}

\* The operand and the result are uint8_t; the test of bit 31 of the result
\* is always false.  The model holds the handler for l_erd < 8.
cpuOpcodeNotL(m, c) ==
    LET l_erd == BitAnd(c.opcodeBuffer[1], 15)
        l_erdValue == U8(cpuGetRegister32(c, BitAnd(l_erd, 7)))
        l_result == 255 - l_erdValue
    IN IF l_erd > 7 THEN {}
       ELSE {Cpu(m, cpuFlagsLogical(cpuSetRegister32(c, l_erd, l_erdValue),
                                    FALSE, l_result = 0))}

cpuOpcodeOrB(m, c) ==
    LET op == c.opcodeBuffer[1]
        reg == BitAnd(op, 65280) = 5120                        \* == 0x1400
        l_rd == IF reg THEN BitAnd(op, 15) ELSE BitAnd(op, 3840) \div 256
        l_operand == IF reg THEN cpuGetRegister8(c, BitAnd(op, 240) \div 16)
                     ELSE U8(op)
        l_result == BitOr(cpuGetRegister8(c, l_rd), l_operand)
    IN {Cpu(m, cpuFlagsLogical(cpuSetRegister8(c, l_rd, l_result),
                               Bit(l_result, 7) = 1, l_result = 0))}

cpuOpcodeOrW(m, c) ==
    LET op == c.opcodeBuffer[1]
        l_rd == BitAnd(op, 15)
        done(d, l_operand) ==
            LET l_result == BitOr(cpuGetRegister16(d, l_rd), l_operand)
            IN cpuFlagsLogical(cpuSetRegister16(d, l_rd, l_result),
                               Bit(l_result, 15) = 1, l_result = 0)
    IN IF BitAnd(op, 65280) = 25600                            \* == 0x6400
       THEN {Cpu(m, done(c, cpuGetRegister16(c, BitAnd(op, 240) \div 16)))}
       ELSE AfterFetch(cpuFetch16(m, c),
              LAMBDA f : {Cpu(f.m, done(f.cpu, f.val))})

\* The #xx:32 branch: l_operand is a uint16_t, so the low word of the
\* immediate is the operand.  The registers of the model stay below 2^31.
\* The model does not hold the branch of opcode 0x01f0.
cpuOpcodeOrL(m, c) ==
    LET op == c.opcodeBuffer[1]
        l_erd == BitAnd(op, 7)
    IN IF op = 496 THEN {}                                     \* == 0x01f0
       ELSE AfterFetch(cpuFetch32(m, c),
              LAMBDA f :
                LET l_result == BitOr(cpuGetRegister32(f.cpu, l_erd), f.val[2])
                IN {Cpu(f.m, cpuFlagsLogical(
                               cpuSetRegister32(f.cpu, l_erd, l_result),
                               FALSE, l_result = 0))})

\* cpuCheckConditionCode with LE decided by Z and N alone.
cpuCheckConditionCode_LeWithoutV(c, p_conditionCode) ==
    LET C == Bit(c.ccr, CCR_C) = 1
        V == Bit(c.ccr, CCR_V) = 1
        Z == Bit(c.ccr, CCR_Z) = 1
        N == Bit(c.ccr, CCR_N) = 1
    IN CASE p_conditionCode = 0 -> TRUE
         [] p_conditionCode = 2 -> ~(C \/ Z)
         [] p_conditionCode = 3 -> C \/ Z
         [] p_conditionCode = 4 -> ~C
         [] p_conditionCode = 5 -> C
         [] p_conditionCode = 6 -> ~Z
         [] p_conditionCode = 7 -> Z
         [] p_conditionCode = 8 -> ~V
         [] p_conditionCode = 9 -> V
         [] p_conditionCode = 10 -> ~N
         [] p_conditionCode = 11 -> N
         [] p_conditionCode = 12 -> ~(N # V)
         [] p_conditionCode = 13 -> N # V
         [] p_conditionCode = 14 -> ~(Z \/ (N # V))
         [] p_conditionCode = 15 -> Z \/ N
         [] OTHER -> FALSE

\* The condition codes are the values of enum te_cpuConditionCode: AL 0,
\* NV 1, HI 2, LS 3, CC 4, CS 5, NE 6, EQ 7, VC 8, VS 9, PL 10, MI 11, GE 12,
\* LT 13, GT 14, LE 15.  NV has no case and takes the default.
cpuCheckConditionCode(c, p_conditionCode) ==
    LET C == Bit(c.ccr, CCR_C) = 1
        V == Bit(c.ccr, CCR_V) = 1
        Z == Bit(c.ccr, CCR_Z) = 1
        N == Bit(c.ccr, CCR_N) = 1
    IN CASE p_conditionCode = 0 -> TRUE
         [] p_conditionCode = 2 -> ~(C \/ Z)
         [] p_conditionCode = 3 -> C \/ Z
         [] p_conditionCode = 4 -> ~C
         [] p_conditionCode = 5 -> C
         [] p_conditionCode = 6 -> ~Z
         [] p_conditionCode = 7 -> Z
         [] p_conditionCode = 8 -> ~V
         [] p_conditionCode = 9 -> V
         [] p_conditionCode = 10 -> ~N
         [] p_conditionCode = 11 -> N
         [] p_conditionCode = 12 -> ~(N # V)
         [] p_conditionCode = 13 -> N # V
         [] p_conditionCode = 14 -> ~(Z \/ (N # V))
         [] p_conditionCode = 15 -> Z \/ (N # V)
         [] OTHER -> FALSE

\* PC += l_disp when the condition holds.  The model holds the branches
\* whose target is not below 0.
cpuBranch(m, c, l_conditionCode, l_disp) ==
    IF cpuCheckConditionCode(c, l_conditionCode)
    THEN (IF c.pc + l_disp < 0 THEN {}
          ELSE {Cpu(m, [c EXCEPT !.pc = c.pc + l_disp])})
    ELSE {Cpu(m, c)}

cpuOpcodeBcc(m, c) ==
    LET op == c.opcodeBuffer[1] IN
    IF BitAnd(op, 65280) = 22528                               \* == 0x5800
    THEN AfterFetch(cpuFetch16(m, c),
           LAMBDA f : cpuBranch(f.m, f.cpu, BitAnd(op, 240) \div 16,
                                Int16(f.val)))
    ELSE cpuBranch(m, c, BitAnd(op, 3840) \div 256, Int8(BitAnd(op, 255)))

cpuOpcodeAddB(m, c) ==
    LET op == c.opcodeBuffer[1]
        reg == BitAnd(op, 65280) = 2048                        \* == 0x0800
        l_rd == IF reg THEN BitAnd(op, 15) ELSE BitAnd(op, 3840) \div 256
        l_operand1 == IF reg THEN cpuGetRegister8(c, BitAnd(op, 240) \div 16)
                      ELSE BitAnd(op, 255)
        l_operand2 == cpuGetRegister8(c, l_rd)
        l_result == l_operand1 + l_operand2                    \* uint16_t
        sameSign == Bit(l_operand1, 7) = Bit(l_operand2, 7)
        ccr == SetBit(SetBit(SetBit(SetBit(SetBit(c.ccr,
                 CCR_H, Bit(BitAnd(l_operand1, 15) + BitAnd(l_operand2, 15), 4)),
                 CCR_N, Bit(l_result, 7)),
                 CCR_Z, Flag(l_result = 0)),
                 CCR_V, Flag(sameSign /\ Bit(l_operand1, 7) # Bit(l_result, 7))),
                 CCR_C, Bit(l_result, 8))
    IN {Cpu(m, cpuSetRegister8([c EXCEPT !.ccr = ccr], l_rd, U8(l_result)))}

\* The sum and the flags of ADD.W from both operands.
cpuAddWResult(c, l_rd, l_operand1, l_operand2) ==
    LET l_result == l_operand1 + l_operand2                    \* uint32_t
        sameSign == Bit(l_operand1, 15) = Bit(l_operand2, 15)
        ccr == SetBit(SetBit(SetBit(SetBit(SetBit(c.ccr,
                 CCR_H, Bit(BitAnd(l_operand1, 4095) + BitAnd(l_operand2, 4095), 12)),
                 CCR_N, Bit(l_result, 15)),
                 CCR_Z, Flag(l_result = 0)),
                 CCR_V, Flag(sameSign /\ Bit(l_operand1, 15) # Bit(l_result, 15))),
                 CCR_C, Bit(l_result, 16))
    IN cpuSetRegister16([c EXCEPT !.ccr = ccr], l_rd, U16(l_result))

\* ADD.W Rs,Rd reads l_operand1 from Rs.  ADD.W #xx:16,Rd stores the fetched
\* word in l_operand2, which the read of Rd then overwrites, and never assigns
\* l_operand1: the sum is made with an uninitialized local.
cpuOpcodeAddW(m, c) ==
    LET op == c.opcodeBuffer[1]
        l_rd == BitAnd(op, 15)
    IN IF BitAnd(op, 65280) = 2304                             \* == 0x0900
       THEN {Cpu(m, cpuAddWResult(c, l_rd,
                      cpuGetRegister16(c, BitAnd(op, 240) \div 16),
                      cpuGetRegister16(c, l_rd)))}
       ELSE AfterFetch(cpuFetch16(m, c),
              LAMBDA f : {Cpu(f.m, cpuAddWResult(f.cpu, l_rd, w,
                                     cpuGetRegister16(f.cpu, l_rd))) :
                          w \in WildWords})

\* DIVXU.B.  The decode of 0x51 fetches no second word, so the register
\* fields come from what s_cpuOpcodeBuffer[1] held before.  The division is
\* made without a test of the divisor: on a zero divisor the process is
\* killed (SIGFPE) or, where the division does not trap, quotient and
\* remainder are arbitrary.  The model holds the handler for l_rd < 8.
cpuOpcodeDivxuB(m, c) ==
    LET l_rs == BitAnd(c.opcodeBuffer[2], 240) \div 16
        l_rd == BitAnd(c.opcodeBuffer[2], 15)
        l_dividend == cpuGetRegister16(c, l_rd)
        l_divisor == cpuGetRegister8(c, l_rs)
        done(q, r) ==
            LET ccr == SetBit(SetBit(c.ccr, CCR_N, Bit(q, 7)), CCR_Z, Flag(q = 0))
                old == c.er[l_rd]
            IN [c EXCEPT !.ccr = ccr,
                         !.er[l_rd] = old - (old % 65536) + r * 256 + q]
    IN IF l_rd > 7 THEN {}
       ELSE IF l_divisor = 0
       THEN {Cpu([m EXCEPT !.crashed = TRUE], c)}
            \cup {Cpu(m, done(q, r)) : q \in WildBytes, r \in WildBytes}
       ELSE {Cpu(m, done(U8(l_dividend \div l_divisor), U8(l_dividend % l_divisor)))}

\* The pass of EEPMOV.B without "byte.rl--": the counter never reaches 0.
cpuEepmovPass_NoDecrement(x) ==
    IF x.m.crashed \/ x.cpu.er[4] % 256 = 0
    THEN {x}
    ELSE UNION {
           IF r.m.crashed THEN {[x EXCEPT !.m = r.m]}
           ELSE {IF w.m.crashed THEN [x EXCEPT !.m = w.m]
                 ELSE [m |-> w.m,
                       cpu |-> x.cpu,
                       src |-> x.src + 1,
                       dst |-> x.dst + 1] :
                 w \in busWrite8(r.m, U16(x.dst), r.val)}
           : r \in busRead8(x.m, U16(x.src))}

\* One test of the loop condition of EEPMOV.B and, when it holds, one pass
\* of the body.  x = [m, cpu, src, dst] holds the memory, the CPU and the
\* two local addresses; a pass on a finished or killed run changes nothing.
cpuEepmovPass(x) ==
    IF x.m.crashed \/ x.cpu.er[4] % 256 = 0                    \* R4.byte.rl
    THEN {x}
    ELSE UNION {
           IF r.m.crashed THEN {[x EXCEPT !.m = r.m]}
           ELSE {IF w.m.crashed THEN [x EXCEPT !.m = w.m]
                 ELSE [m |-> w.m,
                       cpu |-> [x.cpu EXCEPT !.er[4] = @ - 1],
                       src |-> x.src + 1,
                       dst |-> x.dst + 1] :
                 w \in busWrite8(r.m, U16(x.dst), r.val)}
           : r \in busRead8(x.m, U16(x.src))}

\* k passes of the loop, made by halves to keep the evaluation shallow.
RECURSIVE cpuEepmovPasses(_, _)
cpuEepmovPasses(S, k) ==
    IF k = 0 THEN S
    ELSE IF k = 1 THEN UNION {cpuEepmovPass(x) : x \in S}
    ELSE LET T == cpuEepmovPasses(S, k \div 2)
         IN IF T = {} THEN {} ELSE cpuEepmovPasses(T, k - k \div 2)

\* The 8-bit counter allows at most 255 passes; a run whose counter is not
\* 0 after them never leaves the loop and has no outcome.
cpuOpcodeEepmovB(m, c) ==
    LET S == cpuEepmovPasses({[m |-> m, cpu |-> c, src |-> c.er[5],
                               dst |-> c.er[6]]}, 255)
    IN {Cpu(x.m, IF x.m.crashed THEN x.cpu
                 ELSE cpuSetRegister32(cpuSetRegister32(x.cpu, 5, x.src),
                                       6, x.dst)) :
        x \in {y \in S : y.m.crashed \/ y.cpu.er[4] % 256 = 0}}

\* The handler decrements its operand.
cpuOpcodeIncB(m, c) ==
    LET l_rd == BitAnd(c.opcodeBuffer[1], 15)
        l_operand == U8(cpuGetRegister8(c, l_rd) + 255)        \* l_operand--
        ccr == SetBit(SetBit(SetBit(c.ccr,
                 CCR_N, Bit(l_operand, 7)),
                 CCR_Z, Flag(l_operand = 0)),
                 CCR_V, Flag(l_operand = 128))
    IN {Cpu(m, cpuSetRegister8([c EXCEPT !.ccr = ccr], l_rd, l_operand))}

\* ER7 -= 2 and the store of PC come first, the target after them: for
\* JSR @aa:24 the second word is fetched after PC was stored.  The model
\* holds the handler for ER7 >= 2.
cpuOpcodeJsr(m, c) ==
    LET op == c.opcodeBuffer[1]
        sp == c.er[7] - 2
        c1 == [c EXCEPT !.er[7] = sp]
    IN IF c.er[7] < 2 THEN {}
       ELSE AfterBus(busWrite16(m, U16(sp), U16(c.pc)), c1,
              LAMBDA w :
                IF BitAnd(op, 65280) = 23808                   \* == 0x5d00
                THEN {Cpu(w.m, [c1 EXCEPT !.pc =
                          cpuGetRegister32(c1, BitAnd(op, 112) \div 16)])}
                ELSE IF BitAnd(op, 65280) = 24064              \* == 0x5e00
                THEN AfterFetch(cpuFetch16(w.m, c1),
                       LAMBDA f : {Cpu(f.m, [f.cpu EXCEPT !.pc =
                                      BitAnd(op, 255) * 65536 + f.val])})
                ELSE AfterBus(busRead16(w.m, BitOr(65280, BitAnd(op, 255))), c1,
                       LAMBDA r : {Cpu(r.m, [c1 EXCEPT !.pc = r.val])}))

cpuOpcodeRts(m, c) ==
    LET l_spValue == cpuGetRegister32(c, 7) IN
    AfterBus(busRead16(m, U16(l_spValue)), c,
      LAMBDA r : {Cpu(r.m, cpuSetRegister32([c EXCEPT !.pc = r.val], 7,
                                            l_spValue + 2))})

\* N and Z from a 16-bit value, V cleared (the tail of the MOV.W handlers).
cpuFlagsMovW(c, l_operand) ==
    [c EXCEPT !.ccr = SetBit(SetBit(SetBit(c.ccr,
                          CCR_N, Bit(l_operand, 15)),
                          CCR_Z, Flag(l_operand = 0)),
                          CCR_V, 0)]

\* MOV.W #xx:16, Rd and MOV.W @ERs+, Rd (the 0x7900 and 0x6d00 branches).
cpuOpcodeMovW2(m, c) ==
    LET op == c.opcodeBuffer[1]
        l_rd == BitAnd(op, 15)
    IN IF BitAnd(op, 65280) = 30976                            \* == 0x7900
       THEN AfterFetch(cpuFetch16(m, c),
              LAMBDA f : {Cpu(f.m, cpuFlagsMovW(
                                     cpuSetRegister16(f.cpu, l_rd, f.val), f.val))})
       ELSE IF BitAnd(op, 65280) = 27904                       \* == 0x6d00
       THEN LET l_ers == BitAnd(op, 112) \div 16
                l_address == cpuGetRegister32(c, l_ers)
            IN AfterBus(busRead16(m, U16(l_address)), c,
                 LAMBDA r : {Cpu(r.m, cpuFlagsMovW(
                                cpuSetRegister16(
                                  cpuSetRegister32(c, l_ers, l_address + 2),
                                  l_rd, r.val), r.val))})
       ELSE {}

\* MOV.W Rs, @-ERd (the 0x6d00 branch).  The model holds the handler for
\* ERd >= 2.
cpuOpcodeMovW3(m, c) ==
    LET op == c.opcodeBuffer[1] IN
    IF BitAnd(op, 65280) = 27904                               \* == 0x6d00
    THEN LET l_rs == BitAnd(op, 15)
             l_erd == BitAnd(op, 112) \div 16
             l_address == cpuGetRegister32(c, l_erd) - 2
             c1 == cpuSetRegister32(c, l_erd, l_address)
             l_operand == cpuGetRegister16(c1, l_rs)
             c2 == cpuFlagsMovW(c1, l_operand)
         IN IF l_address < 0 THEN {}
            ELSE {Cpu(r.m, c2) : r \in busWrite16(m, U16(l_address), l_operand)}
    ELSE {}

\* The case 0x7b of cpuDecode fetches the second word of EEPMOV before it
\* returns the handler.
cpuExecute(h, m, c) ==
    CASE h = "Nop" -> cpuOpcodeNop(m, c)
      [] h = "MovB2" -> cpuOpcodeMovB2(m, c)
      [] h = "MovB3" -> cpuOpcodeMovB3(m, c)
      [] h = "Undefined" -> cpuOpcodeUndefined(m, c)
      [] h = "AddB" -> cpuOpcodeAddB(m, c)
      [] h = "Bcc" -> cpuOpcodeBcc(m, c)
      [] h = "AddS" -> cpuOpcodeAddS(m, c)
      [] h = "DecW" -> cpuOpcodeDecW(m, c)
      [] h = "AndB" -> cpuOpcodeAndB(m, c)
      [] h = "AndW" -> cpuOpcodeAndW(m, c)
      [] h = "AndL" -> cpuOpcodeAndL(m, c)
      [] h = "MovB1" -> cpuOpcodeMovB1(m, c)
      [] h = "MovW1" -> cpuOpcodeMovW1(m, c)
      [] h = "MovL1" -> cpuOpcodeMovL1(m, c)
      [] h = "NotB" -> cpuOpcodeNotB(m, c)
      [] h = "NotW" -> cpuOpcodeNotW(m, c)
      [] h = "NotL" -> cpuOpcodeNotL(m, c)
      [] h = "OrB" -> cpuOpcodeOrB(m, c)
      [] h = "OrW" -> cpuOpcodeOrW(m, c)
      [] h = "OrL" -> cpuOpcodeOrL(m, c)
      [] h = "AddW" -> cpuOpcodeAddW(m, c)
      [] h = "DivxuB" -> cpuOpcodeDivxuB(m, c)
      [] h = "EepmovB" -> AfterFetch(cpuFetch16(m, c),
                            LAMBDA f : cpuOpcodeEepmovB(f.m, f.cpu))
      [] h = "IncB" -> cpuOpcodeIncB(m, c)
      [] h = "Jsr" -> cpuOpcodeJsr(m, c)
      [] h = "Rts" -> cpuOpcodeRts(m, c)
      [] h = "MovW2" -> cpuOpcodeMovW2(m, c)
      [] h = "MovW3" -> cpuOpcodeMovW3(m, c)
      [] OTHER -> {}

\* The head of coreStep without "s_cpuInitialized = true": the vector is
\* loaded again on every step.
coreStepVector_Reload(m, c) ==
    IF ~c.initialized
    THEN {[m |-> r.m,
           cpu |-> IF r.m.crashed THEN c ELSE [c EXCEPT !.pc = r.val],
           vector |-> TRUE] : r \in busRead16(m, 0)}
    ELSE {[m |-> m, cpu |-> c, vector |-> FALSE]}

\* The head of coreStep: if(!s_cpuInitialized) { PC = busRead16(0); ... }.
\* Outcomes [m, cpu, vector]: vector tells whether the vector was loaded.
coreStepVector(m, c) ==
    IF ~c.initialized
    THEN {[m |-> r.m,
           cpu |-> IF r.m.crashed THEN c
                   ELSE [c EXCEPT !.pc = r.val, !.initialized = TRUE],
           vector |-> TRUE] : r \in busRead16(m, 0)}
    ELSE {[m |-> m, cpu |-> c, vector |-> FALSE]}

\* coreStep.  Outcomes [m, cpu, vector, fetchAt]: fetchAt is the PC the
\* opcode fetch was made at.
coreStep(m, c) ==
    UNION {
      IF x.m.crashed
      THEN {[m |-> x.m, cpu |-> x.cpu, vector |-> x.vector, fetchAt |-> x.cpu.pc]}
      ELSE UNION {
           IF f.m.crashed
           THEN {[m |-> f.m, cpu |-> f.cpu, vector |-> x.vector,
                  fetchAt |-> x.cpu.pc]}
           ELSE {[m |-> e.m, cpu |-> e.cpu, vector |-> x.vector,
                  fetchAt |-> x.cpu.pc] :
                 e \in cpuExecute(cpuDecode(f.val), f.m,
                                  [f.cpu EXCEPT !.opcodeBuffer[1] = f.val])}
           : f \in cpuFetch16(x.m, x.cpu)}
      : x \in coreStepVector(m, c)}

-----------------------------------------------------------------------------
(* Core facade (core.c) and the host (main.c).                             *)

E_CORE_FILE_FLASH_ROM == 0
E_CORE_FILE_EEPROM == 1

C_FLASH_ROM_SIZE_BYTES == 49152
C_EEPROM_SIZE_BYTES == 65536

\* coreLoadFile without the size checks: every buffer of a known kind is
\* installed.
coreLoadFile_NoSizeCheck(flash, eeprom, p_coreFile, p_buffer, p_size) ==
    IF p_coreFile = E_CORE_FILE_FLASH_ROM THEN <<p_buffer, eeprom, 0>>
    ELSE IF p_coreFile = E_CORE_FILE_EEPROM THEN <<flash, p_buffer, 0>>
    ELSE <<flash, eeprom, 1>>

\* coreLoadFile: <<s_flashRomBuffer after, s_eepromBuffer after, return value>>.
coreLoadFile(flash, eeprom, p_coreFile, p_buffer, p_size) ==
    IF p_coreFile = E_CORE_FILE_FLASH_ROM
    THEN IF p_size # C_FLASH_ROM_SIZE_BYTES THEN <<flash, eeprom, 1>>
         ELSE <<p_buffer, eeprom, 0>>
    ELSE IF p_coreFile = E_CORE_FILE_EEPROM
    THEN IF p_size # C_EEPROM_SIZE_BYTES THEN <<flash, eeprom, 1>>
         ELSE <<flash, p_buffer, 0>>
    ELSE <<flash, eeprom, 1>>

\* coreReset: cpuReset(); ramReset(); ssuReset();
coreResetMem(m) == [ramReset(m) EXCEPT !.ssu = ssuReset(m.ssu)]

-----------------------------------------------------------------------------
(* The state machine.                                                      *)

M == [ram |-> s_ramData, rom |-> s_romData, ssu |-> ssu, crashed |-> crashed]

SetM(m) ==
    /\ s_ramData' = m.ram
    /\ s_romData' = m.rom
    /\ ssu' = m.ssu
    /\ crashed' = m.crashed

Op(name, a, v, r, buf) == [op |-> name, a |-> a, v |-> v, r |-> r, buf |-> buf]

Init ==
    /\ s_flashRomBuffer = "NULL"
    /\ s_eepromBuffer = "NULL"
    /\ s_romData = "NULL"
    /\ s_ramData = EmptyRam
    /\ ssu = SsuZero
    /\ cpu = CpuZero
    /\ crashed = FALSE
    /\ hostPc = "start"
    /\ last = Op("none", 0, 0, 0, "NULL")
    /\ budget = [ops |-> MaxOps, steps |-> MaxSteps, cycles |-> MaxCycles,
                 accesses |-> MaxAccesses]

\* The calls of coreLoadFile the host makes in the model:
\* <<kind, buffer, size>>.
LoadSamples ==
    {<<E_CORE_FILE_FLASH_ROM, "img1", C_FLASH_ROM_SIZE_BYTES>>,
     <<E_CORE_FILE_FLASH_ROM, "img2", C_EEPROM_SIZE_BYTES>>,
     <<E_CORE_FILE_EEPROM, "eeprom1", C_EEPROM_SIZE_BYTES>>,
     <<E_CORE_FILE_EEPROM, "eeprom1", C_FLASH_ROM_SIZE_BYTES>>,
     <<2, "img1", C_FLASH_ROM_SIZE_BYTES>>}

CorePreinit ==
    /\ hostPc = "start"
    /\ s_flashRomBuffer' = "NULL"
    /\ s_eepromBuffer' = "NULL"
    /\ hostPc' = "preinit"
    /\ last' = Op("corePreinit", 0, 0, 0, "NULL")
    /\ UNCHANGED <<s_romData, s_ramData, ssu, cpu, crashed, budget>>

CoreLoadFile ==
    /\ hostPc = "preinit"
    /\ \E in \in LoadSamples :
         LET out == coreLoadFile(s_flashRomBuffer, s_eepromBuffer,
                                 in[1], in[2], in[3])
         IN /\ s_flashRomBuffer' = out[1]
            /\ s_eepromBuffer' = out[2]
            /\ last' = Op("coreLoadFile", in[1], in[3], out[3], in[2])
    /\ UNCHANGED <<s_romData, s_ramData, ssu, cpu, crashed, hostPc, budget>>

RomInit ==
    /\ hostPc = "preinit"
    /\ \E b \in ImageIds :
         /\ s_romData' = romInit(M, b).rom
         /\ last' = Op("romInit", 0, 0, 0, b)
    /\ UNCHANGED <<s_flashRomBuffer, s_eepromBuffer, s_ramData, ssu, cpu,
                   crashed, hostPc, budget>>

\* romInit with one of the program images.
RomInitProgram ==
    /\ hostPc = "preinit"
    /\ \E b \in ProgramIds :
         /\ s_romData' = romInit(M, b).rom
         /\ last' = Op("romInit", 0, 0, 0, b)
    /\ UNCHANGED <<s_flashRomBuffer, s_eepromBuffer, s_ramData, ssu, cpu,
                   crashed, hostPc, budget>>

CoreInit ==
    /\ hostPc = "preinit"
    /\ hostPc' = "run"
    /\ last' = Op("coreInit", 0, 0, 0, "NULL")
    /\ UNCHANGED <<s_flashRomBuffer, s_eepromBuffer, s_romData, s_ramData, ssu,
                   cpu, crashed, budget>>

Running == hostPc = "run" /\ ~crashed

HostOp == Running /\ budget.ops > 0 /\ budget' = [budget EXCEPT !.ops = @ - 1]

BusRead8 ==
    /\ HostOp
    /\ \E a \in AddrSamples : \E r \in busRead8(M, a) :
         SetM(r.m) /\ last' = Op("busRead8", a, 0, r.val, "NULL")
    /\ UNCHANGED <<s_flashRomBuffer, s_eepromBuffer, cpu, hostPc>>

BusRead16 ==
    /\ HostOp
    /\ \E a \in Addr16Samples : \E r \in busRead16(M, a) :
         SetM(r.m) /\ last' = Op("busRead16", a, 0, r.val, "NULL")
    /\ UNCHANGED <<s_flashRomBuffer, s_eepromBuffer, cpu, hostPc>>

BusRead32 ==
    /\ HostOp
    /\ \E a \in Addr32Samples : \E r \in busRead32(M, a) :
         /\ SetM(r.m)
         /\ last' = IF r.m.crashed THEN Op("busRead32", a, 0, 0, "NULL")
                    ELSE Op("busRead32", a, r.val[1], r.val[2], "NULL")
    /\ UNCHANGED <<s_flashRomBuffer, s_eepromBuffer, cpu, hostPc>>

BusWrite8 ==
    /\ HostOp
    /\ \E a \in AddrSamples, v \in ByteSamples : \E r \in busWrite8(M, a, v) :
         SetM(r.m) /\ last' = Op("busWrite8", a, v, 0, "NULL")
    /\ UNCHANGED <<s_flashRomBuffer, s_eepromBuffer, cpu, hostPc>>

BusWrite16 ==
    /\ HostOp
    /\ \E a \in Addr16Samples, v \in WordSamples : \E r \in busWrite16(M, a, v) :
         SetM(r.m) /\ last' = Op("busWrite16", a, v, 0, "NULL")
    /\ UNCHANGED <<s_flashRomBuffer, s_eepromBuffer, cpu, hostPc>>

BusWrite32 ==
    /\ HostOp
    /\ \E a \in Addr32Samples, v \in LongSamples : \E r \in busWrite32(M, a, v) :
         SetM(r.m) /\ last' = Op("busWrite32", a, v[1], v[2], "NULL")
    /\ UNCHANGED <<s_flashRomBuffer, s_eepromBuffer, cpu, hostPc>>

CoreReset ==
    /\ HostOp
    /\ cpu' = cpuReset(cpu)
    /\ SetM(coreResetMem(M))
    /\ last' = Op("coreReset", 0, 0, 0, "NULL")
    /\ UNCHANGED <<s_flashRomBuffer, s_eepromBuffer, hostPc>>

CoreStep ==
    /\ Running
    /\ budget.steps > 0
    /\ budget' = [budget EXCEPT !.steps = @ - 1]
    /\ \E o \in coreStep(M, cpu) :
         /\ SetM(o.m)
         /\ cpu' = o.cpu
         /\ last' = Op("coreStep", o.fetchAt, IF o.vector THEN 1 ELSE 0,
                       o.cpu.opcodeBuffer[1], "NULL")
    /\ UNCHANGED <<s_flashRomBuffer, s_eepromBuffer, hostPc>>

BusCycle ==
    /\ Running
    /\ budget.cycles > 0
    /\ budget' = [budget EXCEPT !.cycles = @ - 1]
    /\ SetM(busCycle(M))
    /\ last' = Op("busCycle", 0, 0, 0, "NULL")
    /\ UNCHANGED <<s_flashRomBuffer, s_eepromBuffer, cpu, hostPc>>

\* busWrite8 and busRead8 of an SSU register, by a host that interleaves
\* them with bus cycles.
BusWrite8Ssu ==
    /\ Running
    /\ budget.accesses > 0
    /\ budget' = [budget EXCEPT !.accesses = @ - 1]
    /\ \E a \in SsuWriteAddrs, v \in SsuByteSamples : \E r \in busWrite8(M, a, v) :
         SetM(r.m) /\ last' = Op("busWrite8", a, v, 0, "NULL")
    /\ UNCHANGED <<s_flashRomBuffer, s_eepromBuffer, cpu, hostPc>>

BusRead8Ssu ==
    /\ Running
    /\ budget.accesses > 0
    /\ budget' = [budget EXCEPT !.accesses = @ - 1]
    /\ \E a \in SsuReadAddrs : \E r \in busRead8(M, a) :
         SetM(r.m) /\ last' = Op("busRead8", a, 0, r.val, "NULL")
    /\ UNCHANGED <<s_flashRomBuffer, s_eepromBuffer, cpu, hostPc>>

\* The host drives the bus: every public function of bus.h and core.h but
\* coreStep.
Next ==
    \/ CorePreinit
    \/ CoreLoadFile
    \/ RomInit
    \/ CoreInit
    \/ BusRead8
    \/ BusRead16
    \/ BusRead32
    \/ BusWrite8
    \/ BusWrite16
    \/ BusWrite32
    \/ CoreReset

Spec == Init /\ [][Next]_vars

\* The host runs the CPU: main.c's loop of coreStep, with resets in between.
NextCpu ==
    \/ CorePreinit
    \/ RomInit
    \/ RomInitProgram
    \/ CoreInit
    \/ CoreReset
    \/ CoreStep

SpecCpu == Init /\ [][NextCpu]_vars

\* The host drives the SSU: it resets the core and writes SSU registers, then
\* clocks the bus.
NextSsu ==
    \/ CorePreinit
    \/ CoreInit
    \/ (budget.cycles = MaxCycles /\ CoreReset)
    \/ (budget.cycles = MaxCycles /\ BusWrite8 /\ last'.a \in SsuAddrs)
    \/ BusCycle

SpecSsu == Init /\ [][NextSsu]_vars

\* The host's loop clocks the bus without end: a bus cycle that can be taken
\* is taken.
SpecSsuFair == SpecSsu /\ WF_vars(BusCycle)

\* The host resets the core, then interleaves SSU register accesses with bus
\* cycles.
NextSsuMix ==
    \/ CorePreinit
    \/ CoreInit
    \/ (budget.cycles = MaxCycles /\ budget.accesses = MaxAccesses /\ CoreReset)
    \/ BusWrite8Ssu
    \/ BusRead8Ssu
    \/ (budget.cycles > MaxCycles - MaxSsuCycles /\ BusCycle)

SpecSsuMix == Init /\ [][NextSsuMix]_vars

-----------------------------------------------------------------------------
(* Properties.                                                             *)

IsRomAddr(a) == a >= 0 /\ a <= 49151                  \* 0x0000..0xbfff
IsOpenAddr(a) == (a >= 49152 /\ a <= 61471) \/ (a >= 61696 /\ a <= 63359)
IsRamAddr(a) == a >= 63360 /\ a <= 65407              \* 0xf780..0xff7f
IsIo2Addr(a) == a >= 65408 /\ a <= 65535              \* 0xff80..0xffff

\* C1: after a flash image was loaded with coreLoadFile(FLASH, img, 49152)
\* and coreInit has run, a busRead8 of a ROM address returns the image's byte
\* at that address.  (The host has made no call of romInit of its own.)
C1_RomReadsLoadedImage ==
    (/\ last.op = "busRead8"
     /\ IsRomAddr(last.a)
     /\ s_flashRomBuffer \in ImageIds
     /\ s_romData \in {"NULL", s_flashRomBuffer})
    => (~crashed /\ last.r = ImgByte(s_flashRomBuffer, last.a))

\* C2: a busWrite8 of v to a RAM address a is read back by busRead8(a) as v.
C2_RamWriteThenRead ==
    (last.op = "busWrite8" /\ IsRamAddr(last.a) /\ ~crashed)
    => busRead8(M, last.a) = {Ok(M, last.v)}

C2_Witness ==
    /\ last.op = "busWrite8"
    /\ last.a = 65407
    /\ last.v = 90
    /\ ~crashed
    /\ ramByte(s_ramData, 0) = 255

\* C3: a busRead8 of an open-bus address (0xc000..0xf01f, 0xf100..0xf77f)
\* returns 0xff, and a busWrite8 to such an address changes no RAM byte, no
\* ROM byte and no SSU register.
C3_OpenStep ==
    /\ (last'.op = "busRead8" /\ IsOpenAddr(last'.a))
       => (~crashed' /\ last'.r = 255)
    /\ (last'.op = "busWrite8" /\ IsOpenAddr(last'.a))
       => (~crashed' /\ UNCHANGED <<s_ramData, s_romData, ssu>>)

C3_OpenBus == [][C3_OpenStep]_vars

C3_Witness ==
    /\ last.op = "busWrite8"
    /\ IsOpenAddr(last.a)
    /\ s_ramData # EmptyRam
    /\ ~crashed

\* C4: a busRead16 of an open-bus address returns 0xffff.
C4_OpenRead16 ==
    (last.op = "busRead16" /\ IsOpenAddr(last.a)) => last.r = 65535

\* C5: for an address of the 0xff80..0xffff page the decode takes an entry
\* inside s_io2BusPeripherals and that entry is the open bus, so a busRead8
\* returns 0xff and nothing goes wrong.
C5_Io2Open ==
    (last.op = "busRead8" /\ IsIo2Addr(last.a))
    => /\ Io2Index(last.a) < Io2TableEntries
       /\ busGetPeripheral(last.a) = {"NONE"}
       /\ ~crashed
       /\ last.r = 255

\* C6: no bus write changes a byte of the loaded ROM image: after every
\* step of the running core each ROM address still reads as the image byte.
C6_RomStep ==
    (hostPc = "run" /\ s_romData \in ImageIds /\ ~crashed')
    => \A a \in RomAddrs : romRead8(M', a) = {Ok(M', ImgByte(s_romData, a))}

C6_RomKept == [][C6_RomStep]_vars

\* C7: after coreReset every general register is 0, CCR is 0x80, PC is 0 and
\* the initialized flag is false, whatever the CPU held before.
C7_CpuAfterReset ==
    last.op = "coreReset"
    => /\ \A i \in 0..7 : cpu.er[i] = 0
       /\ cpu.ccr = 128
       /\ cpu.pc = 0
       /\ ~cpu.initialized

C7_Witness ==
    /\ last.op = "coreReset"
    /\ s_romData = "img1"
    /\ budget.steps = MaxSteps - 2

\* C8: the coreStep that follows a coreReset loads PC from the word at
\* 0x0000 and fetches its opcode there; a coreStep that follows a coreStep
\* fetches at the PC its predecessor left and loads no vector.
C8_Step ==
    (last'.op = "coreStep" /\ budget'.steps = budget.steps - 1 /\ ~crashed')
    => /\ last.op = "coreReset"
          => /\ last'.v = 1
             /\ \E r \in busRead16(M, 0) : ~r.m.crashed /\ last'.a = r.val
       /\ last.op = "coreStep"
          => /\ last'.v = 0
             /\ last'.a = cpu.pc

C8_VectorOnce == [][C8_Step]_vars

C8_Witness ==
    /\ last.op = "coreStep"
    /\ last.v = 0
    /\ last.a = 258
    /\ s_romData = "img1"
    /\ budget.steps = MaxSteps - 2
    /\ ~crashed

\* C9: after the reset the SSU is idle: SSSR is 0x04 with TEND = 1, SSCRH is
\* 0x08 and every other register and counter of the SSU is 0.
C9_SsuAfterReset ==
    last.op = "coreReset"
    => /\ ssu.sssr = 4
       /\ Tend(ssu) = 1
       /\ ssu.sscrh = 8
       /\ ssu.sscrl = 0 /\ ssu.ssmr = 0 /\ ssu.sser = 0 /\ ssu.ssrdr = 0
       /\ ssu.sstdr = 0 /\ ssu.sstrsr = 0
       /\ ssu.clockCounter = 0 /\ ssu.bitCounter = 0

\* The host has reset the core and then written SSTDR once, and nothing
\* else, before it started the clock (the reset leaves SSCRH = 0x08 and
\* SSTDR = 0; every byte the host writes differs from 0).
C10_Scenario ==
    /\ hostPc = "run"
    /\ ~crashed
    /\ budget.ops = MaxOps - 2
    /\ ssu.sscrh = 8
    /\ ssu.sstdr \in ByteSamples

\* C10: from the reset SSU (CKS = 0), after one write to SSTDR, TEND is 1
\* after 2048 calls of ssuCycle and not before, and RDRF is 1 then.
C10_TendAfter2048 ==
    C10_Scenario
    => LET n == MaxCycles - budget.cycles IN
       /\ n < 2048 => Tend(ssu) = 0
       /\ n >= 2048 => Tend(ssu) = 1
       /\ n = 2048 => Rdrf(ssu) = 1

\* The SSU has clocked a byte to its end and no transfer is running.
C11_TransferDone ==
    /\ hostPc = "run"
    /\ ~crashed
    /\ budget.cycles < MaxCycles
    /\ Tend(ssu) = 1
    /\ ssu.bitCounter = 0
    /\ ssu.clockCounter = 0

\* C11: after a byte transfer has completed, the first busRead8 of SSRDR
\* (0xf0e9) returns 0xff and leaves RDRF = 0, and the read that follows it
\* returns 0.
C11_SsrdrReadOnce ==
    C11_TransferDone
    => \A r1 \in busRead8(M, 61673) :
         /\ ~r1.m.crashed
         /\ r1.val = 255
         /\ Rdrf(r1.m.ssu) = 0
         /\ \A r2 \in busRead8(r1.m, 61673) : ~r2.m.crashed /\ r2.val = 0

\* C12: a coreStep advances the bus once: the SSU after the step is the SSU
\* before it, clocked by one ssuCycle.
C12_Step ==
    (/\ last'.op = "coreStep"
     /\ budget'.steps = budget.steps - 1
     /\ s_romData \in ImageIds
     /\ ~crashed')
    => ssu' = ssuCycle(ssu)

C12_StepCyclesBus == [][C12_Step]_vars

\* C13: coreLoadFile returns non-zero and keeps both buffer handles when the
\* size is not the one of the kind or the kind is unknown; otherwise it
\* returns 0 and installs the buffer for that kind only.
C13_Step ==
    last'.op = "coreLoadFile"
    => LET kind == last'.a
           size == last'.v
           good == \/ kind = E_CORE_FILE_FLASH_ROM /\ size = 49152
                   \/ kind = E_CORE_FILE_EEPROM /\ size = 65536
       IN IF good
          THEN /\ last'.r = 0
               /\ kind = E_CORE_FILE_FLASH_ROM
                  => (s_flashRomBuffer' = last'.buf /\ UNCHANGED s_eepromBuffer)
               /\ kind = E_CORE_FILE_EEPROM
                  => (s_eepromBuffer' = last'.buf /\ UNCHANGED s_flashRomBuffer)
          ELSE /\ last'.r # 0
               /\ UNCHANGED <<s_flashRomBuffer, s_eepromBuffer>>

C14_Step ==
    (/\ last'.op = "coreStep"
     /\ budget'.steps = budget.steps - 1
     /\ s_romData \in AllImageIds)
    => ~crashed'

C14_StepNeverAborts == [][C14_Step]_vars

\* C15: the core is deterministic: from the same ROM image, the same
\* memory and the same CPU state a step has one outcome only (registers, CCR,
\* PC, RAM and SSU), so two runs of the same length end in the same state;
\* no result depends on a value that was never assigned.
C15_Deterministic ==
    (Running /\ s_romData \in AllImageIds /\ budget.steps > 0)
    => Cardinality(coreStep(M, cpu)) <= 1

\* ER7 values that leave the pushed word inside the RAM (0xf782..0xff80).
StackInRam(sp) == sp >= 63362 /\ sp <= 65408

\* C16: for every value of Rn (n < 7) and every ER7 that points into the RAM,
\* PUSH Rn (MOV.W Rn,@-ER7, 0x6df0 + n) followed by POP Rn (MOV.W @ER7+,Rn,
\* 0x6d70 + n) leaves Rn and ER7 as they were before the PUSH.
C16_PushPop ==
    (Running /\ StackInRam(cpu.er[7]))
    => \A n \in 0..6 :
         \A a \in cpuOpcodeMovW3(M, [cpu EXCEPT !.opcodeBuffer[1] = 28144 + n]) :
           \A b \in cpuOpcodeMovW2(a.m, [a.cpu EXCEPT !.opcodeBuffer[1] = 28016 + n]) :
             /\ ~b.m.crashed
             /\ b.cpu.er[n] % 65536 = cpu.er[n] % 65536
             /\ b.cpu.er[7] = cpu.er[7]

\* C17: after a step that executes JSR @ERn (0x5d, 2 bytes) or JSR @aa:24
\* (0x5e, 4 bytes) with ER7 pointing into the RAM, ER7 has decreased by 2
\* and the word at ER7 is the address of the instruction that follows the
\* whole JSR; an RTS executed next restores ER7 and sets PC to that address.
C17_Step ==
    LET hi == last'.r \div 256
        ret == last'.a + (IF hi = 94 THEN 4 ELSE 2)
    IN (/\ last'.op = "coreStep"
        /\ budget'.steps = budget.steps - 1
        /\ s_romData \in AllImageIds
        /\ ~crashed'
        /\ hi \in {93, 94}
        /\ StackInRam(cpu.er[7]))
       => /\ cpu'.er[7] = cpu.er[7] - 2
          /\ busRead16(M', U16(cpu'.er[7])) = {Ok(M', ret)}
          /\ \A r \in cpuOpcodeRts(M', [cpu' EXCEPT !.opcodeBuffer[1] = 21616]) :
                ~r.m.crashed /\ r.cpu.er[7] = cpu.er[7] /\ r.cpu.pc = ret

C17_JsrRts == [][C17_Step]_vars

\* The n bytes from a lie in the ROM image or in the RAM.
ReadableRange(a, n) ==
    \/ a >= 0 /\ a + n <= 49152                               \* 0x0000-0xbfff
    \/ a >= 63360 /\ a + n <= 65408                           \* 0xf780-0xff7f

\* The n bytes from a lie in the RAM.
RamRange(a, n) == a >= 63360 /\ a + n <= 65408

\* C18: with R4L = n, the n bytes from ER5 readable (ROM or RAM), the n bytes
\* from ER6 in the RAM and the two blocks disjoint, EEPMOV.B terminates, the n
\* bytes at ER6.. equal the n bytes that were at ER5.., every other RAM byte is
\* unchanged, ER5 and ER6 have advanced by n and R4L is 0 (nothing is copied
\* for n = 0).
C18_Eepmov ==
    LET n == cpu.er[4] % 256
        src == cpu.er[5]
        dst == cpu.er[6]
        S == cpuOpcodeEepmovB(M, cpu)
    IN (/\ Running
        /\ s_romData \in AllImageIds
        /\ ReadableRange(src, n)
        /\ RamRange(dst, n)
        /\ (src + n <= dst \/ dst + n <= src))
       => /\ S # {}
          /\ \A o \in S :
               /\ ~o.m.crashed
               /\ o.cpu.er[5] = src + n
               /\ o.cpu.er[6] = dst + n
               /\ o.cpu.er[4] = cpu.er[4] - n
               /\ o.cpu.pc = cpu.pc /\ o.cpu.ccr = cpu.ccr
               /\ \A i \in 0..(n - 1) :
                    busRead8(o.m, dst + i) = {Ok(o.m, r.val) : r \in busRead8(M, src + i)}
               /\ \A off \in 0..(C_RAM_SIZE - 1) :
                    (off + 63360 < dst \/ off + 63360 >= dst + n)
                    => ramByte(o.m.ram, off) = ramByte(s_ramData, off)
               /\ o.m.rom = s_romData /\ o.m.ssu = ssu

\* The second EEPMOV.B of program eepmovram has run: the four bytes
\* 79 04 00 04 copied from the ROM to 0xf900 stand at 0xfa00 as well, ER5 and
\* ER6 are 0xf904 and 0xfa04, R4L is 0.
C18_Witness ==
    /\ last.op = "coreStep" /\ last.r = 31580 /\ ~crashed
    /\ s_romData = "eepmovram"
    /\ cpu.er[5] = 63748 /\ cpu.er[6] = 64004 /\ cpu.er[4] % 256 = 0
    /\ \A i \in 0..3 : ramByte(s_ramData, 640 + i) = ImgByte("eepmovram", 256 + i)
    /\ ramByte(s_ramData, 640) = 121 /\ ramByte(s_ramData, 643) = 4

\* C19: for every value b of R0H and every immediate a, ADD.B #a,R0H
\* (0x8000 + a) leaves (a + b) mod 256 in R0H and sets Z exactly when that
\* result is 0, C exactly when a + b carries out of bit 7 and H exactly when
\* the low nibbles carry out of bit 3 (0xff + 0x01: 0x00, Z = C = H = 1).
C19_AddBFlags ==
    Running
    => \A a \in 0..255 :
         \A o \in cpuOpcodeAddB(M, [cpu EXCEPT !.opcodeBuffer[1] = 32768 + a]) :
           LET b == cpuGetRegister8(cpu, 0)
               res == cpuGetRegister8(o.cpu, 0)
           IN /\ res = (a + b) % 256
              /\ Bit(o.cpu.ccr, CCR_Z) = Flag(res = 0)
              /\ Bit(o.cpu.ccr, CCR_C) = Flag(a + b > 255)
              /\ Bit(o.cpu.ccr, CCR_H) = Flag((a % 16) + (b % 16) > 15)

\* C20: for every value b of R0H, INC.B R0H (0x0a00) leaves (b + 1) mod 256
\* in R0H and sets V exactly when b was 0x7f, N from bit 7 of the result and
\* Z exactly when the result is 0 (0x7f: 0x80, V = 1, N = 1, Z = 0).
C20_IncB ==
    Running
    => \A o \in cpuOpcodeIncB(M, [cpu EXCEPT !.opcodeBuffer[1] = 2560]) :
         LET b == cpuGetRegister8(cpu, 0)
             res == cpuGetRegister8(o.cpu, 0)
         IN /\ res = (b + 1) % 256
            /\ Bit(o.cpu.ccr, CCR_V) = Flag(b = 127)
            /\ Bit(o.cpu.ccr, CCR_N) = Bit(res, 7)
            /\ Bit(o.cpu.ccr, CCR_Z) = Flag(res = 0)

\* The step just made executed BLE d:8 (0x4f..) from a ROM image.
C21_BleStep ==
    /\ last'.op = "coreStep"
    /\ budget'.steps = budget.steps - 1
    /\ s_romData \in AllImageIds
    /\ ~crashed'
    /\ last'.r \div 256 = 79

\* C21 as stated: BLE is taken (PC receives PC + displacement) when CCR has
\* Z = 0, N = 1 and V = 1.
C21_Original_Step ==
    (/\ C21_BleStep
     /\ Bit(cpu.ccr, CCR_Z) = 0 /\ Bit(cpu.ccr, CCR_N) = 1
     /\ Bit(cpu.ccr, CCR_V) = 1)
    => cpu'.pc = last'.a + 2 + Int8(last'.r % 256)

C21_Original == [][C21_Original_Step]_vars

\* C21, amended: BLE is taken exactly when Z = 1 or N differs from V, as
\* the H8/300H defines LE; with Z = 0, N = 1 and V = 1 it is not taken and PC
\* is the address of the next instruction.  CCR is unchanged.
C21_Step ==
    C21_BleStep
    => /\ cpu'.pc = last'.a + 2
                    + (IF Bit(cpu.ccr, CCR_Z) = 1
                          \/ Bit(cpu.ccr, CCR_N) # Bit(cpu.ccr, CCR_V)
                       THEN Int8(last'.r % 256) ELSE 0)
       /\ cpu'.ccr = cpu.ccr

C21_BleTaken == [][C21_Step]_vars

\* BLE +0x10 at 0x0104 has run with Z = 0, N = 1, V = 1 and was not taken.
C21_Witness ==
    /\ last.op = "coreStep" /\ last.r = 20240 /\ last.a = 260 /\ ~crashed
    /\ s_romData = "ble"
    /\ Bit(cpu.ccr, CCR_Z) = 0 /\ Bit(cpu.ccr, CCR_N) = 1
    /\ Bit(cpu.ccr, CCR_V) = 1
    /\ cpu.pc = 262

\* First words of logical instructions: AND, OR, XOR and NOT on R0H / R1 /
\* ER1 and MOV, in byte, word and long form, register and immediate.
LogicalOpcodes ==
    {5632, 57584, 5120, 49167, 5376, 53503, 5888,      \* 1600 e0f0 1400 c00f 1500 d0ff 1700
     26113, 31073, 25601, 31041, 25857, 31057, 5905,   \* 6601 7961 6401 7941 6501 7951 1711
     31329, 31297, 31313, 5937,                        \* 7a61 7a41 7a51 1731
     3073, 3329, 3969, 61786, 12415, 30977,            \* 0c01 0d01 0f81 f15a 307f 7901
     28017, 28145}                                     \* 6d71 6df1

C23_Adds ==
    (Running /\ s_romData \in AllImageIds)
    => \A d \in 0..7 : \A k \in {<<2816, 1>>, <<2944, 2>>, <<2960, 4>>} :
         \A o \in cpuExecute(cpuDecode(k[1] + d), M,
                              [cpu EXCEPT !.opcodeBuffer[1] = k[1] + d]) :
           /\ o.cpu.er[d] = cpu.er[d] + k[2]
           /\ o.cpu.ccr = cpu.ccr

\* C24: executing a SUBS opcode (0x1b0d, 0x1b8d, 0x1b9d) leaves every bit of
\* CCR unchanged.
C24_SubsKeepsCcr ==
    (Running /\ s_romData \in AllImageIds)
    => \A d \in 0..7 : \A k \in {6912, 7040, 7056} :
         \A o \in cpuExecute(cpuDecode(k + d), M,
                              [cpu EXCEPT !.opcodeBuffer[1] = k + d]) :
           o.cpu.ccr = cpu.ccr

\* C25: a write of SSTDR while TEND = 1 copies the byte to SSTRSR, clears
\* TEND and sets bit_counter and clock_counter to 0, whatever the counters
\* held before.
C25_Step ==
    (/\ last'.op = "busWrite8"
     /\ last'.a = 61675
     /\ budget'.accesses = budget.accesses - 1
     /\ Tend(ssu) = 1
     /\ ~crashed')
    => /\ ssu'.sstrsr = last'.v
       /\ Tend(ssu') = 0
       /\ ssu'.bitCounter = 0
       /\ ssu'.clockCounter = 0

C25_SstdrStartsTransfer == [][C25_Step]_vars

\* A bus cycle in which the SSU ends a byte (bit_counter reaches 8).
C26_EndOfByte ==
    /\ last'.op = "busCycle"
    /\ budget'.cycles = budget.cycles - 1
    /\ Tend(ssu) = 0
    /\ ssu.bitCounter = 7
    /\ ssu.clockCounter + Pow2(Cks(ssu)) >= 256

\* C26: when ssuCycle ends a byte, RDRF is 1 on return; with RDRF = 1 before,
\* ORER is set and SSRDR is kept, otherwise SSRDR receives the byte (0xff).
C26_Step ==
    C26_EndOfByte
    => /\ Rdrf(ssu') = 1
       /\ Rdrf(ssu) = 1 => (Orer(ssu') = 1 /\ ssu'.ssrdr = ssu.ssrdr)
       /\ Rdrf(ssu) = 0 => ssu'.ssrdr = 255

C26_RdrfAfterByte == [][C26_Step]_vars

\* C27: a write of SSTDR while TEND = 0 clears TDRE (and keeps TEND = 0); at
\* the end of the byte the SSU copies SSTDR to SSTRSR, sets TDRE and keeps
\* TEND = 0; TEND becomes 1 only at the end of a byte that began with
\* TDRE = 1, that is after the buffered byte has been shifted too.
C27_Step ==
    /\ (/\ last'.op = "busWrite8"
        /\ last'.a = 61675
        /\ budget'.accesses = budget.accesses - 1
        /\ Tend(ssu) = 0
        /\ ~crashed')
       => (Tdre(ssu') = 0 /\ Tend(ssu') = 0 /\ ssu'.sstdr = last'.v
           /\ ssu'.sstrsr = ssu.sstrsr)
    /\ (C26_EndOfByte /\ Tdre(ssu) = 0)
       => (ssu'.sstrsr = ssu.sstdr /\ Tdre(ssu') = 1 /\ Tend(ssu') = 0
           /\ ssu'.bitCounter = 0)
    /\ (last'.op = "busCycle" /\ budget'.cycles = budget.cycles - 1
        /\ Tend(ssu) = 0 /\ Tend(ssu') = 1)
       => (C26_EndOfByte /\ Tdre(ssu) = 1)

C27_BufferedByte == [][C27_Step]_vars

\* The byte 0x5a was written to SSTDR during the transfer that the reset left
\* running, and the SSU has taken it at the end of the byte.
C27_Witness ==
    /\ last.op = "busCycle"
    /\ ~crashed
    /\ ssu.sscrh = 8
    /\ Tend(ssu) = 0
    /\ Tdre(ssu) = 1
    /\ ssu.sstdr = 90
    /\ ssu.sstrsr = 90
    /\ ssu.bitCounter = 0
    /\ budget.accesses = 0

\* ORER is unchanged by ssuCycle, by a read of an SSU register, and by a write
\* of an SSU register other than SSSR, from the SSU state s.
C28_OrerKept(s) ==
    /\ Orer(ssuCycle(s)) = Orer(s)
    /\ \A a \in 61664..61675 : Orer(ssuRead8(s, a)[1]) = Orer(s)
    /\ \A a \in (61664..61675) \ {61668} : \A v \in SsuByteSamples :
         Orer(ssuWrite8(s, a, v)) = Orer(s)

\* A write of v to SSSR from the SSU state s turns no bit of SSSR from 0 to 1,
\* and keeps ORER = 1 when bit 6 of v is set.
C28_SssrWrite(s, v) ==
    \A t \in {ssuWrite8(s, 61668, v).sssr} :
      /\ \A b \in 0..7 : Bit(t, b) = 1 => (Bit(s.sssr, b) = 1 /\ Bit(v, b) = 1)
      /\ (Orer(s) = 1 /\ Bit(v, 6) = 1) => Bit(t, 6) = 1
      /\ Bit(v, 6) = 0 => Bit(t, 6) = 0

\* C28: ORER = 1 stays 1 across ssuCycle and the reads and writes of the SSU
\* registers until SSSR is written with bit 6 clear, and no write of SSSR
\* turns an SSSR bit from 0 to 1.  No SSU code sets RDRF, so no run of the
\* program has ORER = 1: the functions are applied to the SSU states of the
\* runs with ORER, and with ORER and RDRF, set in SSSR as well.
C28_Step ==
    /\ Running
       => \A s \in {[ssu EXCEPT !.sssr = x] :
                       x \in {ssu.sssr, BitOr(ssu.sssr, 64), BitOr(ssu.sssr, 66)}} :
            /\ C28_OrerKept(s)
            /\ \A v \in SsuByteSamples \cup {0, 191, 255} : C28_SssrWrite(s, v)
    /\ (/\ last'.op = "busWrite8"
        /\ last'.a = 61668
        /\ budget' # budget
        /\ ~crashed')
       => /\ ssu'.sssr = BitAnd(ssu.sssr, last'.v)
          /\ \A b \in 0..7 : Bit(ssu'.sssr, b) <= Bit(ssu.sssr, b)
    /\ (Orer(ssu) = 1 /\ ~(last'.op = "busWrite8" /\ last'.a = 61668)
        /\ last'.op # "coreReset")
       => Orer(ssu') = 1

C28_OrerSticky == [][C28_Step]_vars

\* After the reset (SSSR = 0x04) the host has written 0x5a to SSSR: TDRE is
\* cleared and no bit is set.
C28_Witness ==
    /\ last.op = "busWrite8"
    /\ last.a = 61668
    /\ last.v = 90
    /\ ~crashed
    /\ ssu.sscrh = 8
    /\ ssu.sssr = 0

\* Clock ticks (in units of the prescaler input) that the SSU state s still
\* has to count before TEND is set: two bytes when a byte is buffered
\* (TDRE = 0), one otherwise, less what the counters hold.
C29_Left(s) ==
    (IF Tdre(s) = 0 THEN 2 ELSE 1) * 2048 - s.bitCounter * 256 - s.clockCounter

\* With TEND = 0, for every CKS, one ssuCycle either sets TEND or leaves
\* 2^CKS ticks less to count, and there are ticks left to count; with
\* TEND = 1 ssuCycle changes nothing.
C29_Variant ==
    Running
    => \A k \in 0..7 : \A s \in {[ssu EXCEPT !.ssmr = k]} :
         \A t \in {ssuCycle(s)} :
           IF Tend(s) = 0
           THEN /\ C29_Left(s) > 0
                /\ Tend(t) = 1 \/ C29_Left(t) = C29_Left(s) - Pow2(k)
                /\ Tend(t) = 1 => C29_Left(s) <= Pow2(k)
           ELSE t = s

\* A bus cycle with TEND = 1 changes no SSU register or counter.
C29_IdleStep ==
    (last'.op = "busCycle" /\ budget'.cycles = budget.cycles - 1 /\ Tend(ssu) = 1)
    => ssu' = ssu

\* C29: while TEND = 0 and SSTDR and SSSR are not written, repeated ssuCycle
\* calls set TEND = 1 in the end, for every CKS and from every value of the
\* counters; with TEND = 1 ssuCycle changes nothing.
C29_Terminates ==
    /\ []C29_Variant
    /\ (Running /\ Tend(ssu) = 0) ~> (Tend(ssu) = 1)
    /\ [][C29_IdleStep]_vars

\* The SSU has shifted the byte that the reset left running and the byte
\* 0x5a buffered by the host, and TEND is 1 after 4096 bus cycles.
C29_Witness ==
    /\ last.op = "busCycle"
    /\ ~crashed
    /\ MaxCycles - budget.cycles = 4096
    /\ Tend(ssu) = 1
    /\ ssu.sscrh = 8
    /\ ssu.sstrsr = 90

\* C30: in every state that the interleavings of bus cycles and SSU register
\* writes reach from the reset, CKS changes during a transfer included,
\* bit_counter is within 0..8 and clock_counter within 0..255 after ssuCycle;
\* the same holds of one more ssuCycle under every CKS.
C30_CountersInRange ==
    Running
    => /\ ssu.bitCounter \in 0..8
       /\ ssu.clockCounter \in 0..255
       /\ \A k \in 0..7 : \A t \in {ssuCycle([ssu EXCEPT !.ssmr = k])} :
            t.bitCounter \in 0..8 /\ t.clockCounter \in 0..255

\* After the reset the host has clocked one cycle with CKS = 0, changed CKS
\* to 7 during the transfer and clocked on: the prescaler holds 1 and seven
\* bits are counted.
C30_Witness ==
    /\ last.op = "busCycle"
    /\ ~crashed
    /\ ssu.sscrh = 8
    /\ Tend(ssu) = 0
    /\ ssu.ssmr = 7
    /\ ssu.clockCounter = 1
    /\ ssu.bitCounter = 7

====
